---- MODULE Spec2Model ----
(***************************************************************************)
(* Model of the RunPod Infinity embedding handler: the job handler of      *)
(* src/src/handler.py, the Infinity HTTP client of                          *)
(* src/src/infinity_client.py (single-modality request and the mixed       *)
(* text/image fan-out / fan-in) and the helpers of src/src/utils.py.       *)
(*                                                                         *)
(* Python indices are 0-based and are kept 0-based in every value that     *)
(* holds an index (task_metadata, the "index" field of an embedding        *)
(* entry); TLA+ sequences are 1-based, so item idx lives at position       *)
(* idx + 1.  A Python str is a sequence of one-character strings.          *)
(***************************************************************************)
EXTENDS Integers, Sequences, FiniteSets, TLC

(***************************************************************************)
(* Bounds of the model.                                                    *)
(***************************************************************************)
\* longest input_data / modalities list a caller passes
MaxLen == 3
\* largest usage count (prompt_tokens) a backend reports for one request
MaxUsage == 1

(***************************************************************************)
(* Strings.                                                                *)
(***************************************************************************)
Min(a, b) == IF a < b THEN a ELSE b

UpperChars == <<"A","B","C","D","E","F","G","H","I","J","K","L","M",
                "N","O","P","Q","R","S","T","U","V","W","X","Y","Z">>
LowerChars == <<"a","b","c","d","e","f","g","h","i","j","k","l","m",
                "n","o","p","q","r","s","t","u","v","w","x","y","z">>

\* str.lower() on one character
LowerChar(c) ==
    IF \E k \in 1..Len(UpperChars) : UpperChars[k] = c
    THEN LowerChars[CHOOSE k \in 1..Len(UpperChars) : UpperChars[k] = c]
    ELSE c

\* str.lower()
Lower(s) == [k \in 1..Len(s) |-> LowerChar(s[k])]

\* str.startswith(prefix)
StartsWith(s, prefix) ==
    /\ Len(prefix) <= Len(s)
    /\ \A k \in 1..Len(prefix) : s[k] = prefix[k]

\* the Python expression  sub in s
Contains(s, sub) ==
    \E off \in 0..(Len(s) - Len(sub)) :
        \A k \in 1..Len(sub) : s[off + k] = sub[k]

DataImagePrefix == <<"d","a","t","a",":","i","m","a","g","e","/">>
HttpPrefix == <<"h","t","t","p",":","/","/">>
HttpsPrefix == <<"h","t","t","p","s",":","/","/">>

image_extensions ==
    << <<".","j","p","g">>, <<".","j","p","e","g">>, <<".","p","n","g">>,
       <<".","g","i","f">>, <<".","b","m","p">>, <<".","w","e","b","p">>,
       <<".","s","v","g">>, <<".","t","i","f","f">> , <<".","i","c","o">> >>

(***************************************************************************)
(* Items a caller can put into a request.  An item is a tagged value:      *)
(* type is the Python type, val the characters of a str.                   *)
(***************************************************************************)
Str(chars) == [type |-> "str", val |-> chars]

ItemHello == Str(<<"h","i">>)
ItemPngUrl == Str(<<"h","t","t","p","s",":","/","/","x","/","y",".","P","N","G">>)
ItemDataUri == Str(<<"d","a","t","a",":","i","m","a","g","e","/","p","n","g",";","b","a","s","e","6","4",",","A","A">>)
ItemEmptyStr == Str(<< >>)

\* the items of a list input
Items == {ItemHello, ItemPngUrl, ItemDataUri}

RECURSIVE SeqsUpTo(_, _)
\* all sequences over S of length 0..n
SeqsUpTo(S, n) ==
    IF n = 0 THEN {<< >>}
    ELSE LET shorter == SeqsUpTo(S, n - 1)
         IN  shorter \cup {Append(s, x) : s \in {t \in shorter : Len(t) = n - 1}, x \in S}

ItemLists == SeqsUpTo(Items, MaxLen)

(***************************************************************************)
(* utils.py                                                                *)
(***************************************************************************)
is_image_data(data) ==
    IF data.type # "str" THEN FALSE
    ELSE IF StartsWith(data.val, DataImagePrefix) THEN TRUE
    ELSE IF StartsWith(data.val, HttpPrefix) \/ StartsWith(data.val, HttpsPrefix)
         THEN \E e \in 1..Len(image_extensions) :
                  Contains(Lower(data.val), image_extensions[e])
    ELSE FALSE

detect_modalities_per_item(input_data) ==
    [k \in 1..Len(input_data) |->
        IF is_image_data(input_data[k]) THEN "image" ELSE "text"]

\* an enumeration that visits the pairs from the last to the first
ZipIndices_backwards(a, b) ==
    [k \in 1..Min(Len(a), Len(b)) |-> Min(Len(a), Len(b)) - k]

\* 0-based indices that  enumerate(zip(a, b))  visits, in order
ZipIndices(a, b) == [k \in 1..Min(Len(a), Len(b)) |-> k - 1]

group_by_modality(input_data, modalities) ==
    LET idxs == ZipIndices(input_data, modalities)
        IsImage(i) == modalities[i + 1] = "image"
        IsText(i) == ~(modalities[i + 1] = "image")
        img == SelectSeq(idxs, IsImage)
        txt == SelectSeq(idxs, IsText)
    IN  << [k \in 1..Len(txt) |-> <<txt[k], input_data[txt[k] + 1]>>],
           [k \in 1..Len(img) |-> <<img[k], input_data[img[k] + 1]>>] >>

create_error_response(message, error_type, code) ==
    [kind |-> "error", data |-> << >>,
     usage |-> [prompt_tokens |-> 0, total_tokens |-> 0],
     model |-> "", etype |-> error_type, message |-> message, code |-> code]

(***************************************************************************)
(* Values exchanged with the Infinity server.                              *)
(***************************************************************************)
\* a JSON "input" value: absent, one str, or a list of items
AbsentInput == [kind |-> "absent", items |-> << >>]
StrInput(item) == [kind |-> "str", items |-> <<item>>]
ListInput(items) == [kind |-> "list", items |-> items]

NoUsage == [prompt_tokens |-> 0, total_tokens |-> 0]
NoExc == [type |-> "none", msg |-> ""]
NoResult == [data |-> << >>, usage |-> NoUsage, model |-> ""]
NoResponse == [kind |-> "none", data |-> << >>, usage |-> NoUsage,
               model |-> "", etype |-> "", message |-> << >>, code |-> 0]

\* the  {}  that fills merged_embeddings before the scatter
Placeholder == [index |-> -1, embedding |-> [of |-> ItemEmptyStr, as |-> "none"]]

InfinityError(msg) == [type |-> "InfinityError", msg |-> msg]
IndexError == [type |-> "IndexError", msg |-> "list index out of range"]
CancelledError == [type |-> "CancelledError", msg |-> ""]
AttributeError == [type |-> "AttributeError", msg |-> "object has no attribute 'get'"]

(***************************************************************************)
(* handler_old.py : detect_modality                                        *)
(***************************************************************************)
\* a JSON "input" value that is one item, not a list
ScalarInput(item) ==
    [kind |-> IF item.type = "str" THEN "str" ELSE "other", items |-> <<item>>]

\* a nested is_image_data that compares the extensions case-sensitively
old_is_image_data_case_sensitive(data) ==
    IF data.type # "str" THEN FALSE
    ELSE IF StartsWith(data.val, DataImagePrefix) THEN TRUE
    ELSE IF StartsWith(data.val, HttpPrefix) \/ StartsWith(data.val, HttpsPrefix)
         THEN \E e \in 1..Len(image_extensions) :
                  Contains(data.val, image_extensions[e])
    ELSE FALSE

\* a nested is_image_data that takes everything that is not a str as image
old_is_image_data_binary_is_image(data) ==
    IF data.type # "str" THEN TRUE
    ELSE IF StartsWith(data.val, DataImagePrefix) THEN TRUE
    ELSE IF StartsWith(data.val, HttpPrefix) \/ StartsWith(data.val, HttpsPrefix)
         THEN \E e \in 1..Len(image_extensions) :
                  Contains(Lower(data.val), image_extensions[e])
    ELSE FALSE

\* the is_image_data nested in detect_modality
old_is_image_data(data) ==
    IF data.type # "str" THEN FALSE
    ELSE IF StartsWith(data.val, DataImagePrefix) THEN TRUE
    ELSE IF StartsWith(data.val, HttpPrefix) \/ StartsWith(data.val, HttpsPrefix)
         THEN \E e \in 1..Len(image_extensions) :
                  Contains(Lower(data.val), image_extensions[e])
    ELSE FALSE

\* a detect_modality that detects on content before looking at the override
detect_modality_content_first(input_data, explicit_modality) ==
    IF input_data.kind \in {"str", "list"} /\ input_data.items # << >>
       /\ old_is_image_data(input_data.items[1])
    THEN "image"
    ELSE IF explicit_modality # "absent" THEN explicit_modality ELSE "text"

\* a detect_modality that calls a list an image batch when any item is one
detect_modality_any_item(input_data, explicit_modality) ==
    IF explicit_modality # "absent" THEN explicit_modality
    ELSE IF input_data.kind = "str"
    THEN IF old_is_image_data(input_data.items[1]) THEN "image" ELSE "text"
    ELSE IF input_data.kind = "list"
            /\ \E k \in 1..Len(input_data.items) : old_is_image_data(input_data.items[k])
    THEN "image"
    ELSE "text"

\* detect_modality(input_data, explicit_modality); "absent" is None
detect_modality(input_data, explicit_modality) ==
    IF explicit_modality # "absent" THEN explicit_modality
    ELSE IF input_data.kind = "str"
    THEN IF old_is_image_data(input_data.items[1]) THEN "image" ELSE "text"
    ELSE IF input_data.kind = "list" /\ Len(input_data.items) > 0
    THEN IF old_is_image_data(input_data.items[1]) THEN "image" ELSE "text"
    ELSE "text"

\* items handed to the classifiers
ItemJpgQuery == Str(<<"h","t","t","p",":","/","/","x","/","a",".","j","p","g","?","b">>)
ItemNoScheme == Str(<<"x","/","y",".","p","n","g">>)
ItemUrlNoExt == Str(<<"h","t","t","p","s",":","/","/","x","/","y">>)
ItemUrlIcons == Str(<<"h","t","t","p","s",":","/","/","x","/",".","i","c","o","n","s">>)
ItemDataText == Str(<<"d","a","t","a",":","t","e","x","t","/","x">>)
ItemBytes == [type |-> "bytes", val |-> << >>]
ItemImage == [type |-> "Image", val |-> <<"RGBA", "img">>]

DetectItems ==
    {ItemHello, ItemPngUrl, ItemDataUri, ItemJpgQuery, ItemNoScheme,
     ItemUrlNoExt, ItemUrlIcons, ItemDataText, ItemBytes, ItemImage}

DetectListItems == {ItemHello, ItemPngUrl, ItemDataUri, ItemUrlNoExt, ItemBytes}

DetectInputs ==
    {ScalarInput(x) : x \in DetectItems}
        \cup {ListInput(l) : l \in SeqsUpTo(DetectListItems, MaxLen)}

ExplicitArgs == {"absent", "text", "image", "audio"}

NoDetected == [uniform |-> "none", per_item |-> << >>, single |-> FALSE]

(***************************************************************************)
(* infinity_client.py : InfinityClient.get_embeddings                      *)
(***************************************************************************)
\* the JSON body of the POST: "modality" is set for image only
Payload(input, model, modality) ==
    [model |-> model, input |-> input,
     modality |-> IF modality = "image" THEN "image" ELSE "absent"]

\* the coroutine get_embeddings(input, model, modality), not yet answered
get_embeddings(input, model, modality) ==
    [modality |-> modality, payload |-> Payload(input, model, modality),
     status |-> "pending", exc |-> NoExc, result |-> NoResult]

\* what the server embeds the items of a request as: the /embeddings
\* endpoint embeds as text unless the body carries a modality
BackendModality(payload) ==
    IF payload.modality = "image" THEN "image" ELSE "text"

\* the three ways the POST fails, each raised as InfinityError
FailureKinds == {"status", "transport", "timeout"}

RequestError(kind) ==
    CASE kind = "status" -> InfinityError("Infinity API error")
      [] kind = "transport" -> InfinityError("Failed to connect to Infinity server")
      [] kind = "timeout" -> InfinityError("Request to Infinity server timed out")

\* response.json() of a successful POST that carries n entries, in the
\* order the items were submitted, and the server's usage count
BackendResult(payload, n, usage) ==
    [data |-> [j \in 1..n |->
                 [index |-> j - 1,
                  embedding |-> [of |-> payload.input.items[j],
                                 as |-> BackendModality(payload)]]],
     usage |-> [prompt_tokens |-> usage, total_tokens |-> usage],
     model |-> payload.model]

\* entry counts a server answers a request with: one per item, or one short
EntryCounts(payload) ==
    LET n == Len(payload.input.items)
    IN  {n} \cup (IF n > 0 THEN {n - 1} ELSE {})

(***************************************************************************)
(* infinity_client.py : InfinityClient.get_embeddings_mixed                *)
(***************************************************************************)
\* a length check that never fires
length_unchecked(input_data, modalities) == FALSE

\* len(input_data) != len(modalities)
LengthMismatch(input_data, modalities) == Len(input_data) # Len(modalities)

\* (idx, data) pairs of the items whose modality is "image"
image_items(input_data, modalities) ==
    LET IsImage(i) == modalities[i + 1] = "image"
        idxs == SelectSeq(ZipIndices(input_data, modalities), IsImage)
    IN  [k \in 1..Len(idxs) |-> <<idxs[k], input_data[idxs[k] + 1]>>]

\* a grouping that keeps only the items tagged "text"
text_items_only_text(input_data, modalities) ==
    LET IsText(i) == modalities[i + 1] = "text"
        idxs == SelectSeq(ZipIndices(input_data, modalities), IsText)
    IN  [k \in 1..Len(idxs) |-> <<idxs[k], input_data[idxs[k] + 1]>>]

\* (idx, data) pairs of every other item (the else branch)
text_items(input_data, modalities) ==
    LET IsText(i) == ~(modalities[i + 1] = "image")
        idxs == SelectSeq(ZipIndices(input_data, modalities), IsText)
    IN  [k \in 1..Len(idxs) |-> <<idxs[k], input_data[idxs[k] + 1]>>]

\* zip(*pairs): the indices and the data of a group
Firsts(pairs) == [k \in 1..Len(pairs) |-> pairs[k][1]]
Seconds(pairs) == [k \in 1..Len(pairs) |-> pairs[k][2]]

\* a task list that sends the text request even for an empty text group
tasks_always_text(input_data, model, modalities) ==
    LET txt == text_items(input_data, modalities)
        img == image_items(input_data, modalities)
    IN  <<get_embeddings(ListInput(Seconds(txt)), model, "text")>>
        \o (IF img # << >>
            THEN <<get_embeddings(ListInput(Seconds(img)), model, "image")>>
            ELSE << >>)

\* the coroutines handed to asyncio.gather, in the order they are appended
tasks(input_data, model, modalities) ==
    LET txt == text_items(input_data, modalities)
        img == image_items(input_data, modalities)
    IN  (IF txt # << >>
         THEN <<get_embeddings(ListInput(Seconds(txt)), model, "text")>>
         ELSE << >>)
        \o (IF img # << >>
            THEN <<get_embeddings(ListInput(Seconds(img)), model, "image")>>
            ELSE << >>)

\* task_metadata: (modality, original indices) of each task, same order
metadata(input_data, modalities) ==
    LET txt == text_items(input_data, modalities)
        img == image_items(input_data, modalities)
    IN  (IF txt # << >> THEN << <<"text", Firsts(txt)>> >> ELSE << >>)
        \o (IF img # << >> THEN << <<"image", Firsts(img)>> >> ELSE << >>)

\* the tasks ts with those in the status inflight cancelled
CancelInFlight(ts, inflight) ==
    [i \in 1..Len(ts) |->
        IF ts[i].status = inflight THEN [ts[i] EXCEPT !.status = "cancelled"]
        ELSE ts[i]]

\* asyncio.gather is cancelled while it is awaited: it cancels every task
\* of its that is not done
gather_cancel(ts, inflight) == CancelInFlight(ts, inflight)

\* a gather that cancels its other tasks when one of them raises
gather_raise_cancelling(ts, inflight) == CancelInFlight(ts, inflight)

\* asyncio.gather without return_exceptions passes the first exception on
\* to its awaiter: the other tasks are not cancelled and keep running
gather_raise(ts, inflight) == ts

\* asyncio.gather is over: every task succeeded, or one has raised
GatherReady(reqs, first) ==
    \/ first # NoExc
    \/ \A t \in 1..Len(reqs) : reqs[t].status = "ok"

\* a gather that drops the failed tasks and hands over the other results
gather_skip_failed(reqs, first, ord) ==
    LET Ok(r) == r.status = "ok"
        oks == SelectSeq(reqs, Ok)
    IN  [exc |-> NoExc, results |-> [k \in 1..Len(oks) |-> oks[k].result]]

\* a gather that hands the results over in completion order
gather_as_completed(reqs, first, ord) ==
    [exc |-> first,
     results |-> [k \in 1..Len(ord) |-> reqs[ord[k]].result]]

\* await asyncio.gather(*tasks): raises the first exception raised by a
\* task, else returns the results in the order of the tasks;
\* ord is the order in which the tasks completed
gather(reqs, first, ord) ==
    [exc |-> first,
     results |-> [t \in 1..Len(reqs) |-> reqs[t].result]]

\* a scatter that writes entry j of a group at position j
position_in_group(result_idx, original_idx) == result_idx

\* merged_embeddings[original_idx] = ... : the position that is written
position(result_idx, original_idx) == original_idx

\* an entry that keeps the index the server gave it
entry_keep_index(entry, original_idx) == entry

\* embedding_data = entry.copy(); embedding_data["index"] = original_idx
embedding_data(entry, original_idx) == [entry EXCEPT !.index = original_idx]

RECURSIVE scatter(_, _, _, _)
\* the inner loop over  enumerate(indices), from result_idx = j - 1 on
scatter(merged, result, indices, j) ==
    IF j > Len(indices) THEN merged
    ELSE scatter([merged EXCEPT ![position(j - 1, indices[j]) + 1] =
                      embedding_data(result.data[j], indices[j])],
                 result, indices, j + 1)

\* a merge that stops after the first group
merge_first_group_only(merged, results, task_meta, k) ==
    IF k > Min(Len(results), Len(task_meta)) \/ k > 1 THEN merged
    ELSE scatter(merged, results[k], task_meta[k][2], 1)

RECURSIVE merge(_, _, _, _)
\* the outer loop over  zip(results, task_metadata), from pair k on
merge(merged, results, task_meta, k) ==
    IF k > Min(Len(results), Len(task_meta)) THEN merged
    ELSE merge(scatter(merged, results[k], task_meta[k][2], 1),
               results, task_meta, k + 1)

\* result["data"][result_idx] raises IndexError: a group's result holds
\* fewer entries than the group has indices
merge_raises(results, task_meta) ==
    \E k \in 1..Min(Len(results), Len(task_meta)) :
        Len(results[k].data) < Len(task_meta[k][2])

\* [{}] * len(input_data)
merged_embeddings(input_data) == [k \in 1..Len(input_data) |-> Placeholder]

\* the "usage" of the merged response
mixed_usage(input_data) ==
    [prompt_tokens |-> Len(input_data), total_tokens |-> Len(input_data)]

(***************************************************************************)
(* handler.py                                                              *)
(***************************************************************************)
DEFAULT_MODEL == "patrickjohncyh/fashion-clip"

\* job["input"]: an OpenAI-routed job (openai_route, openai_input with
\* model / input / modality) or a standard job (one of the keys input,
\* text, image, with model / modality); "absent" is a missing key
NoJob == [kind |-> "none", route |-> "absent", key |-> "absent",
          model |-> "absent", input |-> AbsentInput, modality |-> "absent"]

\* dict.get("model", DEFAULT_MODEL)
ModelOf(job) == IF job.model = "absent" THEN DEFAULT_MODEL ELSE job.model

\* not openai_input : the dict has no key at all
OpenAIInputEmpty(job) ==
    job.model = "absent" /\ job.input.kind = "absent" /\ job.modality = "absent"

\* not input_data : None, "" or []
InputFalsy(input) ==
    \/ input.kind = "absent"
    \/ input.kind = "str" /\ input.items[1].val = << >>
    \/ input.kind = "list" /\ input.items = << >>

\* a test that takes every batch for a uniform one
Uniform_always(modalities) == TRUE

\* len(set(modalities)) == 1
Uniform(modalities) ==
    Cardinality({modalities[k] : k \in 1..Len(modalities)}) = 1

ErrorResponse(text) == create_error_response(<<text>>, "BadRequestError", 400)

ModelsResponse ==
    [NoResponse EXCEPT !.kind = "models", !.model = DEFAULT_MODEL]

\* handle_openai_route up to its first await: an immediate response, one
\* get_embeddings call ("single") or a get_embeddings_mixed call ("mixed")
handle_openai_route(job) ==
    LET none == [step |-> "respond", response |-> NoResponse,
                 input |-> AbsentInput, modality |-> "absent",
                 modalities |-> << >>]
        \* isinstance(input_data, str) -> [input_data]
        input_data == job.input.items
        modalities == detect_modalities_per_item(input_data)
    IN  IF job.route = "/v1/models"
        THEN [none EXCEPT !.response = ModelsResponse]
        ELSE IF job.route = "/v1/embeddings"
        THEN IF OpenAIInputEmpty(job)
             THEN [none EXCEPT !.response =
                       ErrorResponse("Missing openai_input for embeddings request")]
             ELSE IF InputFalsy(job.input)
             THEN [none EXCEPT !.response =
                       ErrorResponse("Missing 'input' field in openai_input")]
             ELSE IF job.modality # "absent"
             THEN [none EXCEPT !.step = "single",
                               !.input = ListInput(input_data),
                               !.modality = job.modality]
             ELSE IF Uniform(modalities)
             THEN [none EXCEPT !.step = "single",
                               !.input = ListInput(input_data),
                               !.modality = modalities[1]]
             ELSE [none EXCEPT !.step = "mixed",
                               !.input = ListInput(input_data),
                               !.modalities = modalities]
        ELSE [none EXCEPT !.response =
                  ErrorResponse("Unsupported OpenAI route")]

\* handle_standard_format up to its await
handle_standard_format(job) ==
    LET none == [step |-> "respond", response |-> NoResponse,
                 input |-> AbsentInput, modality |-> "absent",
                 modalities |-> << >>]
    IN  IF job.key = "input"
        THEN [none EXCEPT !.step = "single", !.input = job.input,
                          !.modality = IF job.modality = "absent"
                                       THEN "text" ELSE job.modality]
        ELSE IF job.key = "text"
        THEN [none EXCEPT !.step = "single", !.input = job.input,
                          !.modality = "text"]
        ELSE IF job.key = "image"
        THEN [none EXCEPT !.step = "single", !.input = job.input,
                          !.modality = "image"]
        ELSE [none EXCEPT !.response =
                  ErrorResponse("Invalid input format. Expected 'input', 'text', or 'image' field.")]

\* an async_handler that catches InfinityError only
async_handler_except_infinity_only(exc) ==
    IF exc.type = "InfinityError"
    THEN create_error_response(<<exc.msg>>, "InfinityError", 400)
    ELSE [NoResponse EXCEPT !.kind = "raised", !.etype = exc.type,
                            !.message = <<exc.msg>>]

\* the except clauses of async_handler
async_handler_except(exc) ==
    IF exc.type = "InfinityError"
    THEN create_error_response(<<exc.msg>>, "InfinityError", 400)
    ELSE create_error_response(<<"Unexpected error: ", exc.msg>>, exc.type, 400)

\* async_handler: the routing on "openai_route" in job_input; a job whose
\* "input" is not a dict ("malformed") raises AttributeError in
\* job_input.get, inside the try
Route(job) ==
    IF job.kind = "malformed"
    THEN [step |-> "respond", response |-> async_handler_except(AttributeError),
          input |-> AbsentInput, modality |-> "absent", modalities |-> << >>]
    ELSE IF job.kind = "openai" THEN handle_openai_route(job)
    ELSE handle_standard_format(job)

\* what the caller of the current call gets when exc is raised in it: the
\* handler turns it into an error response, a direct caller sees it raised
Raised(entry, exc) ==
    IF entry = "handler" THEN async_handler_except(exc)
    ELSE [NoResponse EXCEPT !.kind = "raised", !.etype = exc.type,
                            !.message = <<exc.msg>>]

\* a return that recomputes the usage as the number of entries
Returned_usage_by_count(entry, job, result) ==
    [NoResponse EXCEPT
        !.kind = IF entry = "handler" /\ job.kind = "openai" THEN "list" ELSE "dict",
        !.data = result.data,
        !.usage = [prompt_tokens |-> Len(result.data), total_tokens |-> Len(result.data)],
        !.model = result.model]

\* what the caller gets when the client returns the dict result: the
\* OpenAI route wraps it in a list
Returned(entry, job, result) ==
    [NoResponse EXCEPT
        !.kind = IF entry = "handler" /\ job.kind = "openai" THEN "list" ELSE "dict",
        !.data = result.data, !.usage = result.usage, !.model = result.model]

(***************************************************************************)
(* Inputs.                                                                 *)
(***************************************************************************)
ModelArgs == {"absent", "BAAI/bge-small-en-v1.5"}
ModalityArgs == {"absent", "text", "image", "audio", "video"}
JobInputs ==
    {AbsentInput} \cup {StrInput(x) : x \in Items \cup {ItemEmptyStr}}
                  \cup {ListInput(l) : l \in ItemLists}

OpenAIJobs ==
    {[kind |-> "openai", route |-> "/v1/embeddings", key |-> "absent",
      model |-> m, input |-> i, modality |-> md] :
        m \in ModelArgs, i \in JobInputs, md \in ModalityArgs}
    \cup {[NoJob EXCEPT !.kind = "openai", !.route = r] :
            r \in {"/v1/models", "/v1/other"}}

StandardJobs ==
    {[kind |-> "standard", route |-> "absent", key |-> "input",
      model |-> m, input |-> i, modality |-> md] :
        m \in ModelArgs, i \in JobInputs \ {AbsentInput}, md \in ModalityArgs}
    \cup {[kind |-> "standard", route |-> "absent", key |-> k,
           model |-> m, input |-> i, modality |-> "absent"] :
            k \in {"text", "image"}, m \in ModelArgs,
            i \in JobInputs \ {AbsentInput}}
    \cup {[NoJob EXCEPT !.kind = "standard"]}

\* a job whose "input" is a list, not a dict
MalformedJobs == {[NoJob EXCEPT !.kind = "malformed"]}

Jobs == OpenAIJobs \cup StandardJobs \cup MalformedJobs

\* the item lists and the modalities lists that a direct caller of
\* get_embeddings_mixed or group_by_modality passes
DirectItemLists == SeqsUpTo({ItemHello, ItemPngUrl}, MaxLen)
ModalityLists == SeqsUpTo({"text", "image", "audio"}, MaxLen)

(***************************************************************************)
(* State.                                                                  *)
(***************************************************************************)
VARIABLES
    pc,             \* "idle", "single" (awaiting get_embeddings),
                    \* "gather" (awaiting asyncio.gather), "done"
    call,           \* the call in progress and its arguments
    requests,       \* the get_embeddings coroutines created, in order
    task_metadata,  \* get_embeddings_mixed: (modality, indices) per task
    first_exc,      \* the first exception raised by a task, or NoExc
    order,          \* the tasks in the order they completed
    groups,         \* what a call of group_by_modality returned
    detected,       \* what a call of the classifiers returned
    response        \* what the caller received

\* the variables of the handler and of the Infinity client
cvars == <<pc, call, requests, task_metadata, first_exc, order, groups,
           detected, response>>

(***************************************************************************)
(* embedding_service.py : EmbeddingService, start and stop                 *)
(***************************************************************************)
\* start() / stop() calls made in one behaviour
MaxCalls == 3

\* the coroutines that call start() and stop(); "r" is the coroutine that
\* runs route_openai_get_embeddings
Callers == {"p1", "p2"}
Procs == Callers \cup {"r"}

VARIABLES
    is_running,     \* self.is_running
    http_client,    \* self.http_client: 0 is None, else a key of clients
    clients,        \* the HTTP clients created: "open", "closing", "closed"
    sem,            \* self.sepamore: "free" or the coroutine that holds it
    engine,         \* the engine array: "stopped", "starting", "running",
                    \* "stopping"
    procs,          \* per coroutine: the start()/stop() call it is in
    ncalls,         \* start()/stop() calls made so far
    run_starts,     \* astart() calls since the service was last stopped
    run_creates     \* clients created since the service was last stopped

lvars == <<is_running, http_client, clients, sem, engine, procs, ncalls,
           run_starts, run_creates>>

\* a coroutine outside start() and stop(): op is the call it made last,
\* saw what it read in is_running, did what the call did, raised whether
\* the call ended in an exception, concurrent whether another call was in
\* progress when it was made
IdleProc == [op |-> "none", pc |-> "idle", saw |-> "none", did |-> {},
             raised |-> FALSE, concurrent |-> FALSE]

LifecycleInit ==
    /\ is_running = FALSE
    /\ http_client = 0
    /\ clients = << >>
    /\ sem = "free"
    /\ engine = "stopped"
    /\ procs = [p \in Procs |-> IdleProc]
    /\ ncalls = 0
    /\ run_starts = 0
    /\ run_creates = 0

\* a semaphore that lets everyone in
acquirable_always(s) == TRUE

\* async with self.sepamore: the semaphore of value 1 can be taken
acquirable(s) == s = "free"

\* a start() that never looks at is_running
start_needed_always(running) == TRUE

\* if not self.is_running
start_needed(running) == ~running

\* if self.is_running
stop_needed(running) == running

\* a coroutine calls start() or stop() and reaches the async with
Call(p, op) ==
    /\ procs[p].pc = "idle"
    /\ ncalls < MaxCalls
    /\ ncalls' = ncalls + 1
    /\ procs' = [procs EXCEPT ![p] =
           [IdleProc EXCEPT !.op = op, !.pc = "acquire",
               !.concurrent = \E q \in Procs \ {p} : procs[q].pc # "idle"]]
    /\ UNCHANGED <<is_running, http_client, clients, sem, engine,
                   run_starts, run_creates>>

\* start(): takes the semaphore and runs to the await of astart(), or
\* returns at once when the service is running
StartEnter(p) ==
    /\ procs[p].op = "start"
    /\ procs[p].pc = "acquire"
    /\ acquirable(sem)
    /\ IF start_needed(is_running)
       THEN /\ sem' = p
            /\ engine' = "starting"
            /\ run_starts' = run_starts + 1
            /\ procs' = [procs EXCEPT ![p].pc = "astart", ![p].saw = "stopped",
                                      ![p].did = @ \cup {"astart"}]
       ELSE /\ procs' = [procs EXCEPT ![p].pc = "idle", ![p].saw = "running"]
            /\ UNCHANGED <<sem, engine, run_starts>>
    /\ UNCHANGED <<is_running, http_client, clients, ncalls, run_creates>>

\* start(): astart() returns, the client is created if there is none,
\* is_running is set and the semaphore is released
AstartReturn(p) ==
    /\ procs[p].pc = "astart"
    /\ engine' = "running"
    /\ IF http_client = 0
       THEN /\ clients' = Append(clients, "open")
            /\ http_client' = Len(clients) + 1
            /\ run_creates' = run_creates + 1
            /\ procs' = [procs EXCEPT ![p].pc = "idle",
                                      ![p].did = @ \cup {"create"}]
       ELSE /\ procs' = [procs EXCEPT ![p].pc = "idle"]
            /\ UNCHANGED <<clients, http_client, run_creates>>
    /\ is_running' = TRUE
    /\ sem' = "free"
    /\ UNCHANGED <<ncalls, run_starts>>

\* start(): astart() raises; the semaphore is released on the way out and
\* the engine is left started or not
AstartRaise(p) ==
    /\ procs[p].pc = "astart"
    /\ engine' \in {"stopped", "running"}
    /\ procs' = [procs EXCEPT ![p].pc = "idle", ![p].raised = TRUE]
    /\ sem' = "free"
    /\ run_starts' = 0
    /\ UNCHANGED <<is_running, http_client, clients, ncalls, run_creates>>

\* stop(): takes the semaphore and runs to the await of aclose(), or of
\* astop() when there is no client, or returns at once when the service
\* is not running
StopEnter(p) ==
    /\ procs[p].op = "stop"
    /\ procs[p].pc = "acquire"
    /\ acquirable(sem)
    /\ IF stop_needed(is_running)
       THEN /\ sem' = p
            /\ IF http_client # 0
               THEN /\ clients' = [clients EXCEPT ![http_client] =
                                       IF @ = "closed" THEN "closed" ELSE "closing"]
                    /\ procs' = [procs EXCEPT ![p].pc = "aclose",
                                     ![p].saw = "running",
                                     ![p].did = @ \cup {"aclose"}]
                    /\ UNCHANGED engine
               ELSE /\ engine' = "stopping"
                    /\ procs' = [procs EXCEPT ![p].pc = "astop",
                                     ![p].saw = "running",
                                     ![p].did = @ \cup {"astop"}]
                    /\ UNCHANGED clients
       ELSE /\ procs' = [procs EXCEPT ![p].pc = "idle", ![p].saw = "stopped"]
            /\ UNCHANGED <<sem, clients, engine>>
    /\ UNCHANGED <<is_running, http_client, ncalls, run_starts, run_creates>>

\* stop(): aclose() returns, http_client is set to None, astop() is awaited
AcloseReturn(p) ==
    /\ procs[p].pc = "aclose"
    /\ clients' = [clients EXCEPT ![http_client] = "closed"]
    /\ http_client' = 0
    /\ engine' = "stopping"
    /\ procs' = [procs EXCEPT ![p].pc = "astop", ![p].did = @ \cup {"astop"}]
    /\ UNCHANGED <<is_running, sem, ncalls, run_starts, run_creates>>

\* stop(): aclose() raises; http_client keeps the client, which is left
\* open or closed, and the semaphore is released on the way out
AcloseRaise(p) ==
    /\ procs[p].pc = "aclose"
    /\ \E left \in (IF clients[http_client] = "closed"
                     THEN {"closed"} ELSE {"open", "closed"}) :
          clients' = [clients EXCEPT ![http_client] = left]
    /\ procs' = [procs EXCEPT ![p].pc = "idle", ![p].raised = TRUE]
    /\ sem' = "free"
    /\ UNCHANGED <<is_running, http_client, engine, ncalls, run_starts,
                   run_creates>>

\* stop(): astop() returns, is_running is cleared, the semaphore released
AstopReturn(p) ==
    /\ procs[p].pc = "astop"
    /\ engine' = "stopped"
    /\ is_running' = FALSE
    /\ procs' = [procs EXCEPT ![p].pc = "idle"]
    /\ sem' = "free"
    /\ run_starts' = 0
    /\ run_creates' = 0
    /\ UNCHANGED <<http_client, clients, ncalls>>

\* stop(): astop() raises; is_running stays set and the engine is left
\* running or not
AstopRaise(p) ==
    /\ procs[p].pc = "astop"
    /\ engine' \in {"stopped", "running"}
    /\ procs' = [procs EXCEPT ![p].pc = "idle", ![p].raised = TRUE]
    /\ sem' = "free"
    /\ UNCHANGED <<is_running, http_client, clients, ncalls, run_starts,
                   run_creates>>

(***************************************************************************)
(* multimodal_utils.py                                                     *)
(*                                                                         *)
(* An in-memory image is an item of type "Image" whose val is its mode     *)
(* followed by its pixels.  The bytes of an image file and the base64 text *)
(* of one are single elements of a val: PngFile(mode) and PngBase64(mode); *)
(* the image they hold has the pixels PngPixels.                           *)
(***************************************************************************)
ImageModes == {"RGB", "RGBA"}
Image(mode, pixels) == [type |-> "Image", val |-> <<mode>> \o pixels]
PngPixels == <<"png">>

PngFile(mode) == IF mode = "RGB" THEN "<png RGB>" ELSE "<png RGBA>"
PngBase64(mode) == IF mode = "RGB" THEN "<base64 png RGB>" ELSE "<base64 png RGBA>"

\* the base64 text of an image file cut short, and the bytes it decodes to
PngBase64Truncated == "<base64 png cut>"
PngFileTruncated == "<png cut>"

\* an exception of the service: index is the item index that the message
\* starts with ("Item at index <index>: "), -1 when it names none
SExc(type, text) == [type |-> type, index |-> -1, text |-> text]
NoSExc == SExc("none", "")

AudioText == "Audio modality is not yet implemented. Currently supported modalities: 'text', 'image'"
InvalidModalityText == "Invalid modality. Supported modalities: 'text', 'image', 'audio' (not yet implemented)"

\* what a validator returns or raises, or the download it is suspended in;
\* gets holds the outcome of every client.get the task has called, "pending"
\* for the one it awaits
Valid(value) == [status |-> "ok", value |-> value, exc |-> NoSExc, gets |-> << >>]
Invalid(exc) == [status |-> "failed", value |-> ItemEmptyStr, exc |-> exc,
                 gets |-> << >>]
Downloading(url) == [status |-> "download", value |-> url, exc |-> NoSExc,
                     gets |-> <<"pending">>]

\* the awaited client.get of a task has the outcome
Answered(gets, outcome) == [gets EXCEPT ![Len(gets)] = outcome]

\* a normalisation that returns the image in the mode it has
_ensure_rgb_keep_mode(img) == img

\* img.convert('RGB') keeps the pixels
_ensure_rgb(img) ==
    IF Head(img.val) # "RGB" THEN Image("RGB", Tail(img.val)) ELSE img

_is_url(text) == StartsWith(text, HttpPrefix) \/ StartsWith(text, HttpsPrefix)

\* Image.open(io.BytesIO(img_bytes)); img.load(): the mode of the image
\* the bytes hold, "none" when they are no image or the load raises
LoadImage(img_bytes) ==
    IF \E m \in ImageModes : img_bytes = <<PngFile(m)>>
    THEN CHOOSE m \in ImageModes : img_bytes = <<PngFile(m)>>
    ELSE "none"

Digits == <<"0","1","2","3","4","5","6","7","8","9">>
Base64Alphabet ==
    {UpperChars[k] : k \in 1..Len(UpperChars)}
        \cup {LowerChars[k] : k \in 1..Len(LowerChars)}
        \cup {Digits[k] : k \in 1..Len(Digits)} \cup {"+", "/"}
Base64Blocks == {PngBase64(m) : m \in ImageModes} \cup {PngBase64Truncated}

\* the bytes a block of base64 text decodes to
BlockBytes(block) ==
    IF block = PngBase64Truncated THEN PngFileTruncated
    ELSE PngFile(CHOOSE m \in ImageModes : block = PngBase64(m))

\* base64.b64decode(base64_data): characters outside the alphabet are
\* dropped; it raises binascii.Error (ok = FALSE) when the characters left
\* are not whole groups of four once the padding is counted
B64Decode(base64_data) ==
    LET kept == SelectSeq(base64_data,
                    LAMBDA c : c \in Base64Alphabet \cup Base64Blocks)
        n == Len(SelectSeq(kept, LAMBDA c : c \in Base64Alphabet))
        pads == Len(SelectSeq(base64_data, LAMBDA c : c = "="))
        ok == \/ n % 4 = 0
              \/ n % 4 = 2 /\ pads >= 2
              \/ n % 4 = 3 /\ pads >= 1
    IN  [ok |-> ok,
         bytes |-> IF ~ok \/ kept = << >> THEN << >>
                   ELSE IF Len(kept) = 1 /\ kept[1] \in Base64Blocks
                   THEN <<BlockBytes(kept[1])>>
                   ELSE <<"<bytes>">>]

DataPrefix == <<"d","a","t","a",":">>
Base64Marker == <<";","b","a","s","e","6","4",",">>

\* re.match(r'data:image/[^;]+;base64,(.+)', data): group 1, << >> when
\* there is no match
DataUriPayload(data) ==
    LET semis == {k \in 1..Len(data) : data[k] = ";"}
        k == IF semis = {} THEN 0
             ELSE CHOOSE x \in semis : \A y \in semis : x <= y
    IN  IF /\ StartsWith(data, DataImagePrefix)
           /\ k > Len(DataImagePrefix) + 1
           /\ SubSeq(data, k, k + Len(Base64Marker) - 1) = Base64Marker
           /\ Len(data) >= k + Len(Base64Marker)
        THEN SubSeq(data, k + Len(Base64Marker), Len(data))
        ELSE << >>

\* an _is_base64_image that takes whatever decodes as base64 for an image
_is_base64_image_unloaded(data) ==
    LET base64_data == IF StartsWith(data, DataPrefix)
                       THEN DataUriPayload(data) ELSE data
    IN  IF StartsWith(data, DataPrefix) /\ DataUriPayload(data) = << >>
        THEN "none"
        ELSE IF B64Decode(base64_data).ok THEN "RGB" ELSE "none"

\* _is_base64_image(data): the mode of the image returned, "RGB", or
\* "none" for None: no match, or an exception caught
_is_base64_image(data) ==
    LET base64_data == IF StartsWith(data, DataPrefix)
                       THEN DataUriPayload(data) ELSE data
        decoded == B64Decode(base64_data)
    IN  IF StartsWith(data, DataPrefix) /\ DataUriPayload(data) = << >>
        THEN "none"
        ELSE IF ~decoded.ok THEN "none"
        ELSE IF LoadImage(decoded.bytes) = "none" THEN "none"
        ELSE Head(_ensure_rgb(Image(LoadImage(decoded.bytes), PngPixels)).val)

validate_text_item(item) ==
    IF item.type = "str" THEN item ELSE Str(<<"str", item.type>>)

\* validate_image_item(item, client) up to its first await; client is 0
\* for None
validate_image_item(item, client) ==
    IF item.type = "Image" THEN Valid(_ensure_rgb(item))
    ELSE IF item.type = "bytes"
    THEN IF LoadImage(item.val) = "none"
         THEN Invalid(SExc("ValueError", "Failed to decode image from bytes"))
         ELSE Valid(_ensure_rgb(Image(LoadImage(item.val), PngPixels)))
    ELSE IF item.type = "str"
    THEN IF _is_url(item.val)
         THEN IF client = 0
              THEN Invalid(SExc("ValueError",
                       "HTTP client required for downloading images from URLs"))
              ELSE Downloading(item)
         ELSE IF _is_base64_image(item.val) # "none"
         THEN Valid(Image(_is_base64_image(item.val), PngPixels))
         ELSE Invalid(SExc("ValueError", "String is not a valid image format"))
    ELSE Invalid(SExc("ValueError", "Invalid image type"))

\* the outcomes of  await client.get(url)  and of decoding the body
DownloadOutcomes == {"transport", "status", "not_image", "RGB", "RGBA"}

\* a download without raise_for_status: the body of an error answer goes
\* on to Image.open
_download_image_from_url_no_status_check(url, outcome) ==
    IF outcome = "transport"
    THEN Invalid(SExc("ValueError", "Failed to download image from URL"))
    ELSE IF outcome \in {"status", "not_image"}
    THEN Invalid(SExc("ValueError", "Failed to decode image from URL"))
    ELSE Valid(_ensure_rgb(Image(outcome, url.val)))

\* a download that calls client.get again after a failed request
_download_image_from_url_retrying(url, outcome) ==
    IF outcome \in {"transport", "status"}
    THEN Downloading(url)
    ELSE IF outcome = "not_image"
    THEN Invalid(SExc("ValueError", "Failed to decode image from URL"))
    ELSE Valid(_ensure_rgb(Image(outcome, url.val)))

\* _download_image_from_url(url, client) after client.get has an outcome;
\* the pixels of the image are those the url serves
_download_image_from_url(url, outcome) ==
    IF outcome \in {"transport", "status"}
    THEN Invalid(SExc("ValueError", "Failed to download image from URL"))
    ELSE IF outcome = "not_image"
    THEN Invalid(SExc("ValueError", "Failed to decode image from URL"))
    ELSE Valid(_ensure_rgb(Image(outcome, url.val)))

\* a re-raise that drops the index
reraise_without_index(e, index) == e

\* raise type(e)(f"Item at index {index}: {str(e)}") from e
reraise(e, index) == [e EXCEPT !.index = index]

\* the except clause of validate_item_for_modality applied to what the
\* validator of the modality did
Annotated(task, index) ==
    IF task.status = "failed" /\ task.exc.type \in {"ValueError", "NotImplementedError"}
    THEN [task EXCEPT !.exc = reraise(task.exc, index)]
    ELSE task

\* validate_item_for_modality(item, modality, index, client) up to its
\* first await
validate_item_for_modality(item, modality, index, client) ==
    Annotated(
        IF modality = "text" THEN Valid(validate_text_item(item))
        ELSE IF modality = "image" THEN validate_image_item(item, client)
        ELSE IF modality = "audio"
        THEN Invalid(SExc("NotImplementedError", AudioText))
        ELSE Invalid(SExc("ValueError", InvalidModalityText)),
        index)

(***************************************************************************)
(* embedding_service.py: route_openai_get_embeddings                       *)
(***************************************************************************)
VARIABLES
    r_pc,           \* where the coroutine "r" is in the call: "idle",
                    \* "start", "validate", "embed", "done"
    r_call,         \* the arguments of the call
    r_client,       \* the self.http_client handed to the validators
    r_tasks,        \* the validation tasks handed to asyncio.gather
    r_order,        \* the indices of the tasks that have ended, in the
                    \* order they ended
    r_raised,       \* the indices of the tasks that raised, in the order
                    \* they raised
    r_first_exc,    \* the exception asyncio.gather holds
    r_embed,        \* the call made on the engine
    r_response      \* what the call returned or raised

rvars == <<r_pc, r_call, r_client, r_tasks, r_order, r_raised, r_first_exc,
           r_embed, r_response>>

svars == <<is_running, http_client, clients, sem, engine, procs, ncalls,
           run_starts, run_creates,
           r_pc, r_call, r_client, r_tasks, r_order, r_raised, r_first_exc,
           r_embed, r_response>>

vars == <<pc, call, requests, task_metadata, first_exc, order, groups,
          detected, response,
          is_running, http_client, clients, sem, engine, procs, ncalls,
          run_starts, run_creates,
          r_pc, r_call, r_client, r_tasks, r_order, r_raised, r_first_exc,
          r_embed, r_response>>

\* self.list_models(): the models of the configuration
DeployedModels == {"BAAI/bge-small-en-v1.5"}
RouteModelArgs == DeployedModels \cup {"missing/model"}
RouteModalityArgs == {"text", "image", "audio", "video"}

DataUri(payload) == Str(DataImagePrefix \o <<"p","n","g">> \o Base64Marker \o payload)

\* a data URI whose payload is the base64 text of an RGBA image, and that
\* base64 text alone
ItemPngData == DataUri(<<PngBase64("RGBA")>>)
ItemRawPng == Str(<<PngBase64("RGB")>>)

\* strings that are no image: base64 of the bytes "hi" as a data URI and
\* alone, characters outside the alphabet, the base64 of an image cut short
ItemDataNotImage == DataUri(<<"a","G","k","=">>)
ItemRawNotImage == Str(<<"a","G","k","=">>)
ItemDataWrongAlphabet == DataUri(<<"N","o","!","!">>)
ItemDataTruncated == DataUri(<<PngBase64Truncated>>)

ImageStringItems ==
    {ItemPngData, ItemRawPng, ItemDataUri, ItemDataNotImage, ItemRawNotImage,
     ItemDataWrongAlphabet, ItemDataTruncated, ItemDataText, ItemHello,
     ItemEmptyStr}

\* the bytes of an RGBA image file
ItemPngBytes == [type |-> "bytes", val |-> <<PngFile("RGBA")>>]

RouteItems ==
    {ItemHello, ItemPngUrl, ItemJpgQuery, ItemPngData, ItemImage, ItemPngBytes}
RouteInputs ==
    {StrInput(x) : x \in ImageStringItems}
        \cup {ScalarInput(ItemBytes)}
        \cup {ListInput(l) : l \in SeqsUpTo(RouteItems, MaxLen)}

\* the batches a call that races with stop() is made with
RaceInputs == {ListInput(<<ItemPngUrl>>), ListInput(<<ItemImage, ItemPngUrl>>)}

NoRouteCall == [input |-> AbsentInput, model |-> "", modality |-> ""]
NoEmbed == [method |-> "none", items |-> << >>, outcome |-> "none"]
NoRouteResponse == [kind |-> "none", exc |-> NoSExc, data |-> << >>, usage |-> 0]
RouteRaised(exc) == [NoRouteResponse EXCEPT !.kind = "raised", !.exc = exc]

\* the messages of the exceptions the route makes of a failed engine call
ImageNotSupportedText == "Model does not support image embeddings. Please use a multimodal model (e.g., 'jinaai/jina-clip-v1') or use modality='text' instead."
NotDeployedText == "Model is not deployed or does not support embeddings."
InternalErrorText == "Internal error while processing embeddings"

RouteInit ==
    /\ r_pc = "idle"
    /\ r_call = NoRouteCall
    /\ r_client = 0
    /\ r_tasks = << >>
    /\ r_order = << >>
    /\ r_raised = << >>
    /\ r_first_exc = NoSExc
    /\ r_embed = NoEmbed
    /\ r_response = NoRouteResponse

\* a gather whose exception is the one raised last
set_exception_last(current, exc) == exc

\* asyncio.gather without return_exceptions: the first exception raised by
\* a task becomes the exception of the gather, later ones are dropped
set_exception(current, exc) == IF current = NoSExc THEN exc ELSE current

\* a gather that returns the results in the order the tasks ended
gather_results_as_completed(ts, ord) ==
    [k \in 1..Len(ts) |-> ts[ord[k] + 1].value]

\* asyncio.gather returns the results in the order of its arguments
gather_results(ts, ord) == [i \in 1..Len(ts) |-> ts[i].value]

\* the tasks of the gather, each run to its first await, in the order
\* they were created
RECURSIVE FirstRaised(_, _)
FirstRaised(ts, current) ==
    IF ts = << >> THEN current
    ELSE FirstRaised(Tail(ts),
             IF Head(ts).status = "failed"
             THEN set_exception(current, Head(ts).exc) ELSE current)

\* the indices of the tasks from i on that are in one of the statuses
RECURSIVE IndicesIn(_, _, _)
IndicesIn(ts, statuses, i) ==
    IF i > Len(ts) THEN << >>
    ELSE (IF ts[i].status \in statuses THEN <<i - 1>> ELSE << >>)
             \o IndicesIn(ts, statuses, i + 1)

\* a dispatch that sends audio to the text method
embed_method_audio_as_text(modality) ==
    IF modality \in {"text", "audio"} THEN "embed"
    ELSE IF modality = "image" THEN "image_embed"
    ELSE "ValueError"

\* the branch of  if modality == "text" / "image" / "audio" / else
embed_method(modality) ==
    IF modality = "text" THEN "embed"
    ELSE IF modality = "image" THEN "image_embed"
    ELSE IF modality = "audio" THEN "NotImplementedError"
    ELSE "ValueError"

\* nothing of the call is left but its arguments
RouteCleared ==
    /\ r_client' = 0
    /\ r_tasks' = << >>
    /\ r_order' = << >>
    /\ r_raised' = << >>
    /\ r_first_exc' = NoSExc
    /\ r_embed' = NoEmbed

\* a route that takes every model name for an available one
model_not_available_never(model_name, available_models) == FALSE

\* if model_name not in available_models
model_not_available(model_name, available_models) ==
    model_name \notin available_models

\* from the model check to the await of asyncio.gather; c is the call and
\* client is self.http_client
RouteBegin(c, client) ==
    IF model_not_available(c.model, DeployedModels)
    THEN /\ r_pc' = "done"
         /\ r_response' = RouteRaised(SExc("ValueError", "Model is not available"))
         /\ RouteCleared
    ELSE LET ts == [i \in 1..Len(c.input.items) |->
                       validate_item_for_modality(c.input.items[i], c.modality,
                                                  i - 1, client)]
         IN  /\ r_pc' = "validate"
             /\ r_client' = client
             /\ r_tasks' = ts
             /\ r_order' = IndicesIn(ts, {"ok", "failed"}, 1)
             /\ r_raised' = IndicesIn(ts, {"failed"}, 1)
             /\ r_first_exc' = FirstRaised(ts, NoSExc)
             /\ r_embed' = NoEmbed
             /\ r_response' = NoRouteResponse

\* route_openai_get_embeddings is called with one of the inputs: on a
\* running service it runs to the gather, otherwise it awaits start()
RouteCallWith(inputs, models, modalities) ==
    /\ r_pc = "idle"
    /\ procs["r"].pc = "idle"
    /\ \E input \in inputs, model \in models, modality \in modalities :
          LET c == [input |-> input, model |-> model, modality |-> modality]
          IN  /\ r_call' = c
              /\ IF is_running
                 THEN /\ RouteBegin(c, http_client)
                      /\ UNCHANGED procs
                 ELSE /\ procs' = [procs EXCEPT !["r"] =
                              [IdleProc EXCEPT !.op = "start", !.pc = "acquire",
                                  !.concurrent = \E q \in Callers : procs[q].pc # "idle"]]
                      /\ r_pc' = "start"
                      /\ r_response' = NoRouteResponse
                      /\ RouteCleared
    /\ UNCHANGED <<is_running, http_client, clients, sem, engine, ncalls,
                   run_starts, run_creates>>

RouteCall ==
    /\ RouteCallWith(RouteInputs, RouteModelArgs, RouteModalityArgs)
    /\ UNCHANGED cvars

\* a call with image URLs on a deployed model
RouteCallImage ==
    /\ RouteCallWith(RaceInputs, DeployedModels, {"image"})
    /\ UNCHANGED cvars

\* the start() of the route takes the semaphore; if the service was
\* started meanwhile it returns and the route runs on to the gather
RouteStartEnter ==
    /\ r_pc = "start"
    /\ StartEnter("r")
    /\ IF procs'["r"].pc = "idle"
       THEN RouteBegin(r_call, http_client)
       ELSE UNCHANGED <<r_pc, r_client, r_tasks, r_order, r_raised,
                        r_first_exc, r_embed, r_response>>
    /\ UNCHANGED r_call
    /\ UNCHANGED cvars

\* the start() of the route returns and the route runs on to the gather
RouteAstartReturn ==
    /\ r_pc = "start"
    /\ AstartReturn("r")
    /\ RouteBegin(r_call, http_client')
    /\ UNCHANGED r_call
    /\ UNCHANGED cvars

\* the start() of the route raises: except Exception wraps it
RouteAstartRaise ==
    /\ r_pc = "start"
    /\ AstartRaise("r")
    /\ r_pc' = "done"
    /\ r_response' = RouteRaised(SExc("RuntimeError", InternalErrorText))
    /\ UNCHANGED <<r_call, r_client, r_tasks, r_order, r_raised, r_first_exc,
                   r_embed>>
    /\ UNCHANGED cvars

\* the outcomes client.get can have: a request on a closed client fails
GetOutcomes(client_state) ==
    IF client_state = "closed" THEN {"transport"} ELSE DownloadOutcomes

\* client.get(url) of a validation task has an outcome; the task goes on
\* whether or not the gather has raised already
DownloadRespond ==
    /\ r_pc \in {"validate", "done"}
    /\ \E i \in 1..Len(r_tasks) :
          /\ r_tasks[i].status = "download"
          /\ \E outcome \in GetOutcomes(clients[r_client]) :
             LET res == Annotated(_download_image_from_url(r_tasks[i].value, outcome),
                                  i - 1)
                 t == [res EXCEPT !.gets = Answered(r_tasks[i].gets, outcome) \o @]
             IN  /\ r_tasks' = [r_tasks EXCEPT ![i] = t]
                 /\ r_order' = Append(r_order, i - 1)
                 /\ IF t.status = "failed"
                    THEN /\ r_raised' = Append(r_raised, i - 1)
                         /\ r_first_exc' = set_exception(r_first_exc, t.exc)
                    ELSE UNCHANGED <<r_raised, r_first_exc>>
    /\ UNCHANGED <<r_pc, r_call, r_client, r_embed, r_response>>
    /\ UNCHANGED <<cvars, lvars>>

\* await asyncio.gather(...) ends: it raises its exception, or returns the
\* validated items and the route calls the method of the modality
RouteGather ==
    /\ r_pc = "validate"
    /\ \/ r_first_exc # NoSExc
       \/ \A i \in 1..Len(r_tasks) : r_tasks[i].status = "ok"
    /\ IF r_first_exc # NoSExc
       THEN /\ r_pc' = "done"
            /\ r_response' = RouteRaised(r_first_exc)
            /\ UNCHANGED r_embed
       ELSE LET method == embed_method(r_call.modality)
            IN  IF method \in {"embed", "image_embed"}
                THEN /\ r_pc' = "embed"
                     /\ r_embed' = [method |-> method,
                                    items |-> gather_results(r_tasks, r_order),
                                    outcome |-> "pending"]
                     /\ UNCHANGED r_response
                ELSE /\ r_pc' = "done"
                     /\ r_response' = RouteRaised(SExc(method,
                            IF method = "NotImplementedError"
                            THEN AudioText ELSE InvalidModalityText))
                     /\ UNCHANGED r_embed
    /\ r_tasks' = IF r_first_exc # NoSExc
                  THEN gather_raise(r_tasks, "download") ELSE r_tasks
    /\ UNCHANGED <<r_call, r_client, r_order, r_raised, r_first_exc>>
    /\ UNCHANGED <<cvars, lvars>>

\* the caller cancels the call while it awaits asyncio.gather and no task
\* has raised: the gather cancels the downloads in flight, and the
\* CancelledError passes both except clauses of the route
RouteCancel ==
    /\ r_pc = "validate"
    /\ r_first_exc = NoSExc
    /\ \E i \in 1..Len(r_tasks) : r_tasks[i].status = "download"
    /\ r_tasks' = [i \in 1..Len(r_tasks) |->
                     LET t == gather_cancel(r_tasks, "download")[i]
                     IN  IF t.status = "cancelled"
                         THEN [t EXCEPT !.gets = Answered(@, "cancelled")]
                         ELSE t]
    /\ r_pc' = "done"
    /\ r_response' = RouteRaised(SExc("CancelledError", ""))
    /\ UNCHANGED <<r_call, r_client, r_order, r_raised, r_first_exc, r_embed>>
    /\ UNCHANGED <<cvars, lvars>>

EmbedOutcomes == {"ok", "ModelNotDeployedError", "Exception"}

\* a route without the except ModelNotDeployedError clause: the exception
\* reaches except Exception
embed_except_unhandled(raised, modality) ==
    SExc("RuntimeError", InternalErrorText)

\* what the route raises for an exception of embed / image_embed: the
\* except ModelNotDeployedError clause makes a ValueError, which the outer
\* except (ValueError, NotImplementedError) re-raises; except Exception
\* wraps anything else in a RuntimeError
embed_except(raised, modality) ==
    IF raised = "ModelNotDeployedError"
    THEN SExc("ValueError",
             IF modality = "image" THEN ImageNotSupportedText ELSE NotDeployedText)
    ELSE SExc("RuntimeError", InternalErrorText)

\* the engine answers embed / image_embed: one embedding per item and the
\* usage, or it raises ModelNotDeployedError or another exception
EmbedRespond ==
    /\ r_pc = "embed"
    /\ \E outcome \in EmbedOutcomes, usage \in 0..MaxUsage :
          /\ r_response' =
                IF outcome = "ok"
                THEN [kind |-> "ok", exc |-> NoSExc, usage |-> usage,
                      data |-> [i \in 1..Len(r_embed.items) |->
                                   [index |-> i - 1, of |-> r_embed.items[i]]]]
                ELSE RouteRaised(embed_except(outcome, r_call.modality))
          /\ r_embed' = [r_embed EXCEPT !.outcome = outcome]
    /\ r_pc' = "done"
    /\ UNCHANGED <<r_call, r_client, r_tasks, r_order, r_raised, r_first_exc>>
    /\ UNCHANGED <<cvars, lvars>>

\* the caller has the result or the exception of the call; the coroutine
\* is ready for the next call
RouteEnd ==
    /\ r_pc = "done"
    /\ r_pc' = "idle"
    /\ r_call' = NoRouteCall
    /\ r_response' = NoRouteResponse
    /\ RouteCleared
    /\ UNCHANGED <<cvars, lvars>>

NextService ==
    \/ RouteCall
    \/ RouteEnd
    \/ RouteStartEnter
    \/ RouteAstartReturn
    \/ RouteAstartRaise
    \/ DownloadRespond
    \/ RouteGather
    \/ EmbedRespond

(***************************************************************************)
(* start() and stop() called by the coroutines of Callers                  *)
(***************************************************************************)
CallStart == \E p \in Callers : Call(p, "start") /\ UNCHANGED <<cvars, rvars>>
CallStop == \E p \in Callers : Call(p, "stop") /\ UNCHANGED <<cvars, rvars>>
CallerStartEnter == \E p \in Callers : StartEnter(p) /\ UNCHANGED <<cvars, rvars>>
CallerAstartReturn == \E p \in Callers : AstartReturn(p) /\ UNCHANGED <<cvars, rvars>>
CallerAstartRaise == \E p \in Callers : AstartRaise(p) /\ UNCHANGED <<cvars, rvars>>
CallerStopEnter == \E p \in Callers : StopEnter(p) /\ UNCHANGED <<cvars, rvars>>
CallerAcloseReturn == \E p \in Callers : AcloseReturn(p) /\ UNCHANGED <<cvars, rvars>>
CallerAcloseRaise == \E p \in Callers : AcloseRaise(p) /\ UNCHANGED <<cvars, rvars>>
CallerAstopReturn == \E p \in Callers : AstopReturn(p) /\ UNCHANGED <<cvars, rvars>>
CallerAstopRaise == \E p \in Callers : AstopRaise(p) /\ UNCHANGED <<cvars, rvars>>

NextLifecycle ==
    \/ CallStart
    \/ CallStop
    \/ CallerStartEnter
    \/ CallerAstartReturn
    \/ CallerAstartRaise
    \/ CallerStopEnter
    \/ CallerAcloseReturn
    \/ CallerAcloseRaise
    \/ CallerAstopReturn
    \/ CallerAstopRaise

\* a call for image URLs and the stop() calls of the other coroutines
NextRace ==
    \/ RouteCallImage
    \/ RouteEnd
    \/ RouteStartEnter
    \/ RouteAstartReturn
    \/ RouteAstartRaise
    \/ DownloadRespond
    \/ RouteGather
    \/ EmbedRespond
    \/ CallStop
    \/ CallerStopEnter
    \/ CallerAcloseReturn
    \/ CallerAcloseRaise
    \/ CallerAstopReturn
    \/ CallerAstopRaise

NoCall == [entry |-> "none", job |-> NoJob, path |-> "none",
           input_data |-> << >>, modalities |-> << >>, model |-> ""]

Init ==
    /\ pc = "idle"
    /\ call = NoCall
    /\ requests = << >>
    /\ task_metadata = << >>
    /\ first_exc = NoExc
    /\ order = << >>
    /\ groups = << << >>, << >> >>
    /\ detected = NoDetected
    /\ response = NoResponse
    /\ LifecycleInit
    /\ RouteInit

\* get_embeddings_mixed(input_data, model, modalities) up to its await
get_embeddings_mixed(entry, job, input_data, model, modalities) ==
    /\ call' = [entry |-> entry, job |-> job, path |-> "mixed",
                input_data |-> input_data, modalities |-> modalities,
                model |-> model]
    /\ IF LengthMismatch(input_data, modalities)
       THEN /\ pc' = "done"
            /\ response' = Raised(entry,
                   InfinityError("input_data and modalities must have same length"))
            /\ UNCHANGED <<requests, task_metadata>>
       ELSE /\ pc' = "gather"
            /\ requests' = tasks(input_data, model, modalities)
            /\ task_metadata' = metadata(input_data, modalities)
            /\ UNCHANGED response
    /\ UNCHANGED <<detected, first_exc, order, groups>>
    /\ UNCHANGED svars

\* a caller calls utils.group_by_modality(input_data, modalities)
GroupCall ==
    /\ pc = "idle"
    /\ \E input_data \in DirectItemLists, modalities \in ModalityLists :
          /\ call' = [NoCall EXCEPT !.entry = "direct", !.path = "group",
                                    !.input_data = input_data,
                                    !.modalities = modalities]
          /\ groups' = group_by_modality(input_data, modalities)
    /\ pc' = "done"
    /\ UNCHANGED <<detected, requests, task_metadata, first_exc, order, response>>
    /\ UNCHANGED svars

\* a caller other than the handler calls get_embeddings_mixed
MixedCall ==
    /\ pc = "idle"
    /\ \E input_data \in DirectItemLists, modalities \in ModalityLists :
          get_embeddings_mixed("direct", NoJob, input_data,
                               "BAAI/bge-small-en-v1.5", modalities)

\* async_handler(job) up to the first await of the route it takes
HandlerCall ==
    /\ pc = "idle"
    /\ \E job \in Jobs :
        LET r == Route(job) IN
        CASE r.step = "respond" ->
                /\ pc' = "done"
                /\ call' = [NoCall EXCEPT !.entry = "handler", !.job = job]
                /\ response' = r.response
                /\ UNCHANGED <<detected, requests, task_metadata, first_exc, order, groups>>
                /\ UNCHANGED svars
          [] r.step = "single" ->
                /\ pc' = "single"
                /\ call' = [entry |-> "handler", job |-> job, path |-> "single",
                            input_data |-> r.input.items, modalities |-> << >>,
                            model |-> ModelOf(job)]
                /\ requests' = <<get_embeddings(r.input, ModelOf(job), r.modality)>>
                /\ UNCHANGED <<detected, task_metadata, first_exc, order, groups, response>>
                /\ UNCHANGED svars
          [] r.step = "mixed" ->
                get_embeddings_mixed("handler", job, r.input.items,
                                     ModelOf(job), r.modalities)

\* the Infinity server answers request t, or the POST fails
BackendRespond ==
    \E t \in 1..Len(requests) :
        /\ requests[t].status = "pending"
        /\ \/ \E n \in EntryCounts(requests[t].payload), u \in 0..MaxUsage :
                /\ requests' = [requests EXCEPT
                       ![t].status = "ok",
                       ![t].result = BackendResult(requests[t].payload, n, u)]
                /\ UNCHANGED first_exc
           \/ \E kind \in FailureKinds :
                /\ requests' = [requests EXCEPT
                       ![t].status = "failed", ![t].exc = RequestError(kind)]
                /\ first_exc' = IF first_exc = NoExc
                                THEN RequestError(kind) ELSE first_exc
        /\ order' = Append(order, t)
        /\ UNCHANGED <<detected, pc, call, task_metadata, groups, response>>
        /\ UNCHANGED svars

\* the handler's single  await get_embeddings(...)  returns or raises
SingleReturn ==
    /\ pc = "single"
    /\ requests[1].status # "pending"
    /\ pc' = "done"
    /\ response' = IF requests[1].status = "ok"
                   THEN Returned(call.entry, call.job, requests[1].result)
                   ELSE Raised(call.entry, requests[1].exc)
    /\ UNCHANGED <<detected, call, requests, task_metadata, first_exc, order, groups>>
    /\ UNCHANGED svars

\* get_embeddings_mixed after the gather: raise, or merge and return
GatherReturn ==
    /\ pc = "gather"
    /\ GatherReady(requests, first_exc)
    /\ pc' = "done"
    /\ LET g == gather(requests, first_exc, order) IN
       response' =
         IF g.exc # NoExc THEN Raised(call.entry, g.exc)
         ELSE IF merge_raises(g.results, task_metadata)
         THEN Raised(call.entry, IndexError)
         ELSE Returned(call.entry, call.job,
                  [data |-> merge(merged_embeddings(call.input_data),
                                  g.results, task_metadata, 1),
                   usage |-> mixed_usage(call.input_data),
                   model |-> call.model])
    /\ requests' = IF first_exc # NoExc
                   THEN gather_raise(requests, "pending") ELSE requests
    /\ UNCHANGED <<detected, call, task_metadata, first_exc, order, groups>>
    /\ UNCHANGED svars

\* the caller cancels get_embeddings_mixed while it awaits asyncio.gather
\* and no request has failed: the gather cancels the requests in flight and
\* the CancelledError reaches the caller
MixedCancel ==
    /\ pc = "gather"
    /\ call.entry = "direct"
    /\ first_exc = NoExc
    /\ \E t \in 1..Len(requests) : requests[t].status = "pending"
    /\ requests' = gather_cancel(requests, "pending")
    /\ pc' = "done"
    /\ response' = Raised(call.entry, CancelledError)
    /\ UNCHANGED <<detected, call, task_metadata, first_exc, order, groups>>
    /\ UNCHANGED svars

\* the batches of the calls that may be cancelled
CancelInputs ==
    {ListInput(<<ItemPngUrl, ItemJpgQuery>>), ListInput(<<ItemHello, ItemPngUrl>>)}

\* a caller that makes its batch calls one after the other calls the route
\* for images on a deployed model
RouteCallBatch ==
    /\ pc = "idle"
    /\ RouteCallWith(CancelInputs, DeployedModels, {"image"})
    /\ UNCHANGED cvars

\* the same caller calls get_embeddings_mixed for a text and an image
MixedCallBatch ==
    /\ pc = "idle"
    /\ r_pc = "idle"
    /\ \E input \in CancelInputs :
          get_embeddings_mixed("direct", NoJob, input.items,
                               "BAAI/bge-small-en-v1.5", <<"text", "image">>)

\* batch calls that the caller may cancel while they await their gather
NextCancel ==
    \/ RouteCallBatch
    \/ RouteEnd
    \/ RouteStartEnter
    \/ RouteAstartReturn
    \/ RouteAstartRaise
    \/ DownloadRespond
    \/ RouteGather
    \/ EmbedRespond
    \/ RouteCancel
    \/ MixedCallBatch
    \/ BackendRespond
    \/ GatherReturn
    \/ MixedCancel

\* a caller calls detect_modality, is_image_data and, for a list,
\* detect_modalities_per_item on one input
DetectCall ==
    /\ pc = "idle"
    /\ \E input \in DetectInputs, explicit \in ExplicitArgs :
          /\ call' = [NoCall EXCEPT !.entry = "direct", !.path = "detect",
                                    !.input_data = input.items,
                                    !.job = [NoJob EXCEPT !.input = input,
                                                          !.modality = explicit]]
          /\ detected' =
                [uniform |-> detect_modality(input, explicit),
                 per_item |-> IF input.kind = "list"
                              THEN detect_modalities_per_item(input.items)
                              ELSE << >>,
                 single |-> IF input.kind = "list" THEN FALSE
                            ELSE is_image_data(input.items[1])]
    /\ pc' = "done"
    /\ UNCHANGED <<requests, task_metadata, first_exc, order, groups, response>>
    /\ UNCHANGED svars

Next ==
    \/ GroupCall \/ DetectCall \/ MixedCall \/ HandlerCall
    \/ BackendRespond \/ SingleReturn \/ GatherReturn

Spec == Init /\ [][Next]_vars

SpecLifecycle == Init /\ [][NextLifecycle]_vars

SpecService == Init /\ [][NextService]_vars

SpecRace == Init /\ [][NextRace]_vars

SpecCancel == Init /\ [][NextCancel]_vars

(***************************************************************************)
(* Properties of get_embeddings_mixed.                                     *)
(***************************************************************************)
\* the call is a get_embeddings_mixed call whose two lists have one length
MixedCalled ==
    /\ call.path = "mixed"
    /\ Len(call.input_data) = Len(call.modalities)

\* the call has returned a response (not an error, nothing raised)
Succeeded == pc = "done" /\ response.kind \in {"dict", "list"}

MixedSucceeded == MixedCalled /\ Succeeded

\* every request was answered with one entry per submitted item
AllAnsweredInFull ==
    \A t \in 1..Len(requests) :
        /\ requests[t].status = "ok"
        /\ Len(requests[t].result.data) = Len(requests[t].payload.input.items)

\* C1: when get_embeddings_mixed is called with N items and N modalities
\* and every backend call succeeds with one entry per submitted item, the
\* call returns data of length N with data[i]["index"] = i for every i.
C1_OrderPreservation ==
    (MixedCalled /\ pc = "done" /\ AllAnsweredInFull) =>
        /\ Succeeded
        /\ Len(response.data) = Len(call.input_data)
        /\ \A i \in 0..(Len(call.input_data) - 1) : response.data[i + 1].index = i

\* a merged response of three items whose text item lies between two images
C1_Witness ==
    /\ MixedSucceeded
    /\ AllAnsweredInFull
    /\ call.modalities = <<"image", "text", "image">>
    /\ Len(requests) = 2

\* C2: the entry at data[i] is the j-th result of the request of the group
\* that holds item i at position j, so it is the embedding computed for
\* input item i.
C2_ScatterByGroupPosition ==
    MixedSucceeded =>
        /\ \A k \in 1..Len(task_metadata) :
             \A j \in 1..Len(task_metadata[k][2]) :
                response.data[task_metadata[k][2][j] + 1].embedding
                    = requests[k].result.data[j].embedding
        /\ \A i \in 1..Len(call.input_data) :
                response.data[i].embedding.of = call.input_data[i]

\* a merged response in which the second text item is item 2 of the input
C2_Witness ==
    /\ MixedSucceeded
    /\ Len(task_metadata) = 2
    /\ task_metadata[1][2] = <<0, 2>>
    /\ call.input_data[1] # call.input_data[3]

\* the indices of the group of one modality, << >> when it has no task
GroupIndices(m) ==
    IF \E k \in 1..Len(task_metadata) : task_metadata[k][1] = m
    THEN task_metadata[CHOOSE k \in 1..Len(task_metadata) : task_metadata[k][1] = m][2]
    ELSE << >>

Range(s) == {s[k] : k \in 1..Len(s)}

\* two index lists hold every index of 0..n-1 exactly once between them
PartitionOf(a, b, n) ==
    /\ Range(a) \cap Range(b) = {}
    /\ Range(a) \cup Range(b) = 0..(n - 1)
    /\ Cardinality(Range(a)) = Len(a)
    /\ Cardinality(Range(b)) = Len(b)

\* C3: for equal-length lists, the index lists of the text group and of the
\* image group, as built by get_embeddings_mixed and by group_by_modality,
\* are disjoint and hold every index of 0..N-1 exactly once.
C3_PartitionComplete ==
    /\ (MixedCalled /\ pc \in {"gather", "done"}) =>
          PartitionOf(GroupIndices("text"), GroupIndices("image"),
                      Len(call.input_data))
    /\ (call.path = "group" /\ Len(call.input_data) = Len(call.modalities)) =>
          PartitionOf(Firsts(groups[1]), Firsts(groups[2]),
                      Len(call.input_data))

\* a grouping of three items with an "audio" item between text and image
C3_Witness ==
    /\ MixedCalled
    /\ pc = "gather"
    /\ call.modalities = <<"text", "audio", "image">>

\* C4: when a backend call of get_embeddings_mixed has failed, the call
\* does not return a response: the direct caller sees an exception, the
\* handler returns one error response, and neither carries embeddings.
C4_NoPartialResult ==
    (MixedCalled /\ pc = "done"
       /\ \E t \in 1..Len(requests) : requests[t].status = "failed") =>
        /\ response.kind = (IF call.entry = "handler" THEN "error" ELSE "raised")
        /\ response.data = << >>

\* the handler answered a mixed batch whose text request succeeded and
\* whose image request failed
C4_Witness ==
    /\ MixedCalled
    /\ pc = "done"
    /\ call.entry = "handler"
    /\ Len(requests) = 2
    /\ requests[1].status = "ok"
    /\ requests[2].status = "failed"
    /\ response.kind = "error"

\* the data a mixed call returns for its arguments, whatever the timing
DataFor(input_data, modalities) ==
    [i \in 1..Len(input_data) |->
        [index |-> i - 1,
         embedding |-> [of |-> input_data[i],
                        as |-> IF modalities[i] = "image" THEN "image" ELSE "text"]]]

\* C5: the data of the merged response is the same for every order in which
\* the text and the image request complete: it is determined by the
\* arguments of the call alone.
C5_CompletionOrderIrrelevant ==
    MixedSucceeded => response.data = DataFor(call.input_data, call.modalities)

\* a merged response whose image request completed before its text request
C5_Witness ==
    /\ MixedSucceeded
    /\ Len(requests) = 2
    /\ order = <<2, 1>>

\* the items of the input that belong to the image group (want = TRUE) or
\* to the text group (want = FALSE), in input order
GroupPayload(want) ==
    LET InGroup(i) == (call.modalities[i] = "image") = want
        pos == SelectSeq([k \in 1..Len(call.input_data) |-> k], InGroup)
    IN  [k \in 1..Len(pos) |-> call.input_data[pos[k]]]

\* the requests issued for one modality
RequestsFor(m) == {t \in 1..Len(requests) : requests[t].modality = m}

\* C6: get_embeddings_mixed issues one request for each non-empty group,
\* carrying the whole payload list of the group, and none for an empty
\* group: at most two requests per batch.
C6_OneRequestPerGroup ==
    (MixedCalled /\ pc \in {"gather", "done"}) =>
        /\ Len(requests) <= 2
        /\ \A t \in 1..Len(requests) : requests[t].modality \in {"text", "image"}
        /\ \A want \in BOOLEAN :
             LET m == IF want THEN "image" ELSE "text" IN
             IF GroupPayload(want) = << >>
             THEN RequestsFor(m) = {}
             ELSE /\ Cardinality(RequestsFor(m)) = 1
                  /\ \A t \in RequestsFor(m) :
                        requests[t].payload.input = ListInput(GroupPayload(want))

\* a batch of three images: one request with the three items, none for text
C6_Witness ==
    /\ MixedCalled
    /\ pc = "gather"
    /\ call.modalities = <<"image", "image", "image">>
    /\ Len(requests) = 1
    /\ Len(requests[1].payload.input.items) = 3

\* C7: get_embeddings_mixed called with lists of different length raises
\* the length-mismatch InfinityError and issues no backend request.
C7_LengthMismatchBeforeIO ==
    (call.path = "mixed" /\ Len(call.input_data) # Len(call.modalities)) =>
        /\ requests = << >>
        /\ pc = "done"
        /\ response.kind = "raised"
        /\ response.etype = "InfinityError"
        /\ response.message = <<"input_data and modalities must have same length">>

\* a call with two items and one modality was made
C7_Witness ==
    /\ call.path = "mixed"
    /\ Len(call.input_data) = 2
    /\ Len(call.modalities) = 1
    /\ pc = "done"

RECURSIVE SumPromptTokens(_, _)
\* the prompt_tokens the answered requests 1..t reported, added up
SumPromptTokens(reqs, t) ==
    IF t = 0 THEN 0
    ELSE reqs[t].result.usage.prompt_tokens + SumPromptTokens(reqs, t - 1)

RECURSIVE SumTotalTokens(_, _)
SumTotalTokens(reqs, t) ==
    IF t = 0 THEN 0
    ELSE reqs[t].result.usage.total_tokens + SumTotalTokens(reqs, t - 1)

\* C8: the usage counters of the merged response are the sums of the usage
\* counts that the backend calls of the batch returned.
C8_UsageIsSumOfGroups ==
    MixedSucceeded =>
        /\ response.usage.prompt_tokens = SumPromptTokens(requests, Len(requests))
        /\ response.usage.total_tokens = SumTotalTokens(requests, Len(requests))

(***************************************************************************)
(* Properties of the handler.                                              *)
(***************************************************************************)
\* the job is an OpenAI embeddings request
EmbeddingsJob ==
    /\ call.entry = "handler"
    /\ call.job.kind = "openai"
    /\ call.job.route = "/v1/embeddings"

\* C9: an embeddings request whose input is the empty list gets a success
\* response with data = [] and no backend call is issued for it.
C9_EmptyBatchSucceeds ==
    (EmbeddingsJob /\ call.job.input = ListInput(<< >>) /\ pc = "done") =>
        /\ response.kind = "list"
        /\ response.data = << >>
        /\ requests = << >>

\* C10: a request with explicit modality "audio" is never sent to the
\* backend as text or image, and its caller gets a not-implemented error.
C10_AudioNeverDegrades ==
    (EmbeddingsJob /\ call.job.modality = "audio" /\ ~InputFalsy(call.job.input)) =>
        /\ \A t \in 1..Len(requests) :
              BackendModality(requests[t].payload) \notin {"text", "image"}
        /\ pc = "done" =>
              (response.kind = "error" /\ response.etype = "NotImplementedError")

(***************************************************************************)
(* Modalities that are not supported.                                      *)
(***************************************************************************)
RouteStarted == r_call.model \in DeployedModels /\ ~procs["r"].raised

\* C11: with modality "audio" every validation task raises
\* NotImplementedError, no call is made on the engine, and on an available
\* model the route ends in NotImplementedError for every input, the empty
\* list included, with the message that names 'text' and 'image'.
C11_AudioNotImplemented ==
    r_call.modality = "audio" =>
        /\ \A i \in 1..Len(r_tasks) :
              /\ r_tasks[i].status = "failed"
              /\ r_tasks[i].exc.type = "NotImplementedError"
        /\ r_embed = NoEmbed
        /\ (r_pc = "done" /\ RouteStarted) =>
              /\ r_response.kind = "raised"
              /\ r_response.exc.type = "NotImplementedError"
              /\ r_response.exc.text = AudioText

C11_Witness ==
    /\ r_call.modality = "audio"
    /\ r_call.input = ListInput(<< >>)
    /\ r_pc = "done"
    /\ RouteStarted
    /\ r_response.exc.type = "NotImplementedError"

\* C12: an embeddings request whose modality is outside text, image and
\* audio causes no request to the backend and gets an invalid-modality
\* error.
C12_InvalidModalityRejected ==
    (EmbeddingsJob /\ call.job.modality = "video" /\ ~InputFalsy(call.job.input)) =>
        /\ requests = << >>
        /\ pc = "done" => response.kind = "error"

(***************************************************************************)
(* start() and stop().                                                     *)
(***************************************************************************)
LiveClients == {k \in 1..Len(clients) : clients[k] # "closed"}

\* C13: at most one HTTP client is created and not yet closed; a start()
\* never starts the engine of a running service and one that found the
\* service running did nothing; a stop() never tears down a stopped
\* service and one that found it stopped did nothing.
C13_OneLiveClient ==
    /\ Cardinality(LiveClients) <= 1
    /\ \A p \in Callers :
          /\ procs[p].pc = "astart" => ~is_running
          /\ procs[p].pc \in {"aclose", "astop"} => is_running
          /\ (procs[p].op = "start" /\ procs[p].saw = "running") => procs[p].did = {}
          /\ (procs[p].op = "stop" /\ procs[p].saw = "stopped") => procs[p].did = {}

C13_Witness ==
    /\ Len(clients) = 2
    /\ clients[1] = "closed"
    /\ clients[2] = "open"
    /\ is_running

InCritical(p) == procs[p].pc \in {"astart", "aclose", "astop"}

TwoStartsDone ==
    /\ ncalls = 2
    /\ \A p \in Callers :
          procs[p].op = "start" /\ procs[p].pc = "idle" /\ ~procs[p].raised

\* C14: at most one start() or stop() is between taking and releasing the
\* semaphore, and it is the holder; the engine is started once and one
\* client is created per run, exactly once each by two start() calls; a
\* start() that runs meets no client that is being closed and no engine
\* that is being stopped.
C14_MutualExclusion ==
    /\ Cardinality({p \in Procs : InCritical(p)}) <= 1
    /\ \A p \in Procs : InCritical(p) => sem = p
    /\ run_starts <= 1
    /\ run_creates <= 1
    /\ TwoStartsDone =>
          /\ run_starts = 1
          /\ run_creates = 1
          /\ \E p \in Callers :
                /\ procs[p].did = {"astart", "create"}
                /\ \A q \in Callers \ {p} : procs[q].did = {}
    /\ \A p \in Procs : procs[p].pc = "astart" =>
          /\ http_client = 0
          /\ engine # "stopping"
          /\ \A k \in 1..Len(clients) : clients[k] = "closed"

C14_Witness ==
    /\ TwoStartsDone
    /\ \E p \in Callers : procs[p].concurrent /\ procs[p].saw = "running"
    /\ Len(clients) = 1

(***************************************************************************)
(* Validation of a batch.                                                  *)
(***************************************************************************)
\* C15: once a validation task has raised, no call is made on the engine
\* and nothing is returned; the route raises the exception of the task
\* that raised first.
C15_FirstValidationErrorAborts ==
    r_raised # << >> =>
        /\ r_embed = NoEmbed
        /\ r_response.kind # "ok"
        /\ r_response.data = << >>
        /\ r_pc = "done" => r_response = RouteRaised(r_tasks[r_raised[1] + 1].exc)

C15_Witness ==
    /\ r_pc = "done"
    /\ r_raised = <<1, 0>>
    /\ \E i \in 1..Len(r_tasks) : r_tasks[i].status = "ok"
    /\ r_response.exc.index = 1

\* C16: the exception of a failed validation task names the index of the
\* task and has the type the validator raised, NotImplementedError for
\* audio and ValueError otherwise; the exception the route raises after a
\* validation failure names a task that failed.
C16_IndexAnnotated ==
    /\ \A i \in 1..Len(r_tasks) : r_tasks[i].status = "failed" =>
          /\ r_tasks[i].exc.index = i - 1
          /\ r_tasks[i].exc.type =
                 IF r_call.modality = "audio" THEN "NotImplementedError"
                 ELSE "ValueError"
    /\ (r_response.kind = "raised" /\ r_raised # << >>) =>
          /\ r_response.exc.index >= 0
          /\ r_tasks[r_response.exc.index + 1].status = "failed"

C16_Witness ==
    /\ r_pc = "done"
    /\ r_call.modality = "image"
    /\ r_call.input = ListInput(<<ItemImage, ItemPngData, ItemHello>>)
    /\ r_response.kind = "raised"
    /\ r_response.exc.index = 2

(***************************************************************************)
(* Detection of the modality.                                              *)
(***************************************************************************)
Detected == call.path = "detect" /\ pc = "done"
AutoDetected == Detected /\ call.job.modality = "absent"

NineExtensions ==
    {<<".","j","p","g">>, <<".","j","p","e","g">>, <<".","p","n","g">>,
     <<".","g","i","f">>, <<".","b","m","p">>, <<".","w","e","b","p">>,
     <<".","s","v","g">>, <<".","t","i","f","f">>, <<".","i","c","o">>}

HasPrefix(s, p) == Len(s) >= Len(p) /\ SubSeq(s, 1, Len(p)) = p

Occurs(s, e) ==
    \E k \in 1..Len(s) : k + Len(e) - 1 <= Len(s) /\ SubSeq(s, k, k + Len(e) - 1) = e

LooksLikeImage(s) ==
    \/ HasPrefix(s, <<"d","a","t","a",":","i","m","a","g","e","/">>)
    \/ /\ \/ HasPrefix(s, <<"h","t","t","p",":","/","/">>)
          \/ HasPrefix(s, <<"h","t","t","p","s",":","/","/">>)
       /\ \E e \in NineExtensions : Occurs(Lower(s), e)

ClassOfString(s) == IF LooksLikeImage(s) THEN "image" ELSE "text"

\* C18: without an explicit modality both classifiers call a string an
\* image exactly when it starts with data:image/ or starts with http:// or
\* https:// and contains one of the nine extensions in lower case; every
\* other string is text, and the result is never anything but text or
\* image.
C18_StringClassification ==
    AutoDetected =>
        /\ detected.uniform \in {"text", "image"}
        /\ \A i \in 1..Len(detected.per_item) :
              detected.per_item[i] \in {"text", "image"}
        /\ call.job.input.kind = "str" =>
              /\ detected.uniform = ClassOfString(call.job.input.items[1].val)
              /\ detected.single = LooksLikeImage(call.job.input.items[1].val)
        /\ call.job.input.kind = "list" =>
              \A i \in 1..Len(call.job.input.items) :
                  call.job.input.items[i].type = "str" =>
                      detected.per_item[i] = ClassOfString(call.job.input.items[i].val)

C18_Witness ==
    /\ AutoDetected
    /\ call.job.input = ScalarInput(ItemPngUrl)
    /\ detected.uniform = "image"
    /\ detected.single

\* C19 as stated: an item that is not a string is classified image.
C19_BinaryIsImage ==
    AutoDetected =>
        /\ call.job.input.kind = "other" => detected.uniform = "image"
        /\ call.job.input.kind = "list" =>
              \A i \in 1..Len(call.job.input.items) :
                  call.job.input.items[i].type # "str" =>
                      detected.per_item[i] = "image"

\* C19: an item that is not a string is classified text by both
\* classifiers.
C19_BinaryIsText ==
    AutoDetected =>
        /\ call.job.input.kind = "other" =>
              (detected.uniform = "text" /\ ~detected.single)
        /\ call.job.input.kind = "list" =>
              /\ \A i \in 1..Len(call.job.input.items) :
                    call.job.input.items[i].type # "str" =>
                        detected.per_item[i] = "text"
              /\ (call.job.input.items # << >>
                      /\ call.job.input.items[1].type # "str") =>
                    detected.uniform = "text"

C19_Witness ==
    /\ AutoDetected
    /\ call.job.input = ScalarInput(ItemImage)
    /\ detected.uniform = "text"

ClassOf(item) ==
    IF item.type = "str" THEN ClassOfString(item.val) ELSE "text"

\* C20: detect_modality gives a list the class of its first element, text
\* when it is empty; detect_modalities_per_item gives a list of the same
\* length whose i-th element is the class of item i.
C20_FirstElementVersusPerItem ==
    (AutoDetected /\ call.job.input.kind = "list") =>
        /\ detected.uniform =
               IF call.job.input.items = << >> THEN "text"
               ELSE ClassOf(call.job.input.items[1])
        /\ Len(detected.per_item) = Len(call.job.input.items)
        /\ \A i \in 1..Len(call.job.input.items) :
              detected.per_item[i] = ClassOf(call.job.input.items[i])

C20_Witness ==
    /\ AutoDetected
    /\ call.job.input = ListInput(<<ItemHello, ItemPngUrl>>)
    /\ detected.uniform = "text"
    /\ detected.per_item = <<"text", "image">>

(***************************************************************************)
(* Requests through the handler.                                           *)
(***************************************************************************)
HandlerDone == call.entry = "handler" /\ pc = "done"

\* C21: on the OpenAI route and on the standard "input" format, an item of
\* a request without a modality that auto-detection classifies as image
\* is sent to the backend under modality image.
C21_AbsentModalityAutoDetects ==
    (/\ call.entry = "handler"
     /\ call.job.kind = "openai" \/ call.job.key = "input"
     /\ call.job.modality = "absent") =>
        \A t \in 1..Len(requests) :
            \A j \in 1..Len(requests[t].payload.input.items) :
                ClassOf(requests[t].payload.input.items[j]) = "image" =>
                    BackendModality(requests[t].payload) = "image"

UserErrorTypes == {"BadRequestError", "InfinityError"}

\* C22: an error response of the handler carries code 400 for a user
\* error and code 500 for an unanticipated failure.
C22_ErrorCodeByClass ==
    (HandlerDone /\ response.kind = "error") =>
        /\ response.message # << >>
        /\ response.code = IF response.etype \in UserErrorTypes THEN 400 ELSE 500

\* an embeddings request with modality "text" whose input is a list of N
\* text items, N > 0, answered by the backend with one entry per item
TextBatchAnswered ==
    /\ EmbeddingsJob
    /\ call.job.modality = "text"
    /\ call.job.input.kind = "list"
    /\ call.job.input.items # << >>
    /\ \A i \in 1..Len(call.job.input.items) :
          ClassOf(call.job.input.items[i]) = "text"
    /\ pc = "done"
    /\ AllAnsweredInFull

IndexedInOrder(data, n) ==
    Len(data) = n /\ \A i \in 1..n : data[i].index = i - 1

\* C24 as stated: the response to N text items sent as text has N entries
\* with index 0..N-1 and usage.prompt_tokens = N.
C24_TextBatchUsageIsCount ==
    TextBatchAnswered =>
        /\ response.kind = "list"
        /\ IndexedInOrder(response.data, Len(call.job.input.items))
        /\ response.usage.prompt_tokens = Len(call.job.input.items)

\* C24: the response to N text items sent as text, answered in full, has
\* N entries with index 0..N-1 and the usage the backend returned.
C24_TextBatchUsageIsBackends ==
    TextBatchAnswered =>
        /\ response.kind = "list"
        /\ IndexedInOrder(response.data, Len(call.job.input.items))
        /\ Len(requests) = 1
        /\ response.usage = requests[1].result.usage

C24_Witness ==
    /\ TextBatchAnswered
    /\ Len(call.job.input.items) = 2
    /\ Len(response.data) = 2
    /\ response.usage.prompt_tokens = 0

\* the writes of the merge to position i: the pairs (group, place in group)
\* whose original index is i
WritesTo(i) ==
    {w \in (1..Len(task_metadata)) \X (1..Len(call.input_data)) :
        /\ w[2] <= Len(task_metadata[w[1]][2])
        /\ task_metadata[w[1]][2][w[2]] = i}

AnsweredShort ==
    /\ \A t \in 1..Len(requests) : requests[t].status = "ok"
    /\ \E t \in 1..Len(requests) :
          Len(requests[t].result.data) < Len(requests[t].payload.input.items)

\* C27: a result of get_embeddings_mixed has N entries, none of them the
\* placeholder, each position written once; when a backend answers with
\* fewer entries than items the call does not return a result.
C27_EveryPositionFilledOnce ==
    /\ MixedSucceeded =>
          /\ Len(response.data) = Len(call.input_data)
          /\ \A i \in 1..Len(call.input_data) :
                /\ response.data[i] # Placeholder
                /\ response.data[i].embedding.as # "none"
                /\ Cardinality(WritesTo(i - 1)) = 1
    /\ (MixedCalled /\ pc = "done" /\ AnsweredShort) =>
          /\ ~Succeeded
          /\ response.data = << >>

C27_Witness ==
    /\ MixedCalled
    /\ pc = "done"
    /\ Len(requests) = 2
    /\ AnsweredShort
    /\ response.etype = "IndexError"

\* an exception was raised while the current job was handled
ExceptionRaised ==
    \/ call.job.kind = "malformed"
    \/ \E t \in 1..Len(requests) : requests[t].status = "failed"
    \/ call.path = "mixed" /\ AnsweredShort

\* C29: the handler ends every job with a response, and a job in which an
\* exception was raised with an error response that carries no embeddings.
C29_HandlerAlwaysResponds ==
    HandlerDone =>
        /\ response.kind \in {"error", "list", "dict", "models"}
        /\ ExceptionRaised =>
              /\ response.kind = "error"
              /\ response.data = << >>
              /\ response.message # << >>

C29_Witness ==
    /\ HandlerDone
    /\ call.path = "mixed"
    /\ AnsweredShort
    /\ response.kind = "error"
    /\ response.etype = "IndexError"

ItemsOfClass(items, c) == SelectSeq(items, LAMBDA x : ClassOf(x) = c)

AutoDetectJob ==
    /\ EmbeddingsJob
    /\ call.job.modality = "absent"
    /\ ~InputFalsy(call.job.input)

\* C30: an embeddings request without a modality whose items all have one
\* class is sent as one request with all items under that class; one with
\* items of both classes is sent as one request per class, each with the
\* items of the class in input order, and entry i of the merged result is
\* item i embedded as its class.
C30_UniformOrMixedDispatch ==
    AutoDetectJob =>
        LET items == call.job.input.items
            classes == {ClassOf(items[i]) : i \in 1..Len(items)}
        IN  IF Cardinality(classes) = 1
            THEN /\ call.path = "single"
                 /\ Len(requests) = 1
                 /\ requests[1].modality \in classes
                 /\ requests[1].payload.input.items = items
            ELSE /\ call.path = "mixed"
                 /\ pc # "idle" =>
                       /\ Len(requests) = 2
                       /\ \A c \in {"text", "image"} :
                             \E t \in 1..2 :
                                 /\ requests[t].modality = c
                                 /\ requests[t].payload.input.items = ItemsOfClass(items, c)
                 /\ (pc = "done" /\ AllAnsweredInFull) =>
                       /\ IndexedInOrder(response.data, Len(items))
                       /\ \A i \in 1..Len(items) :
                             response.data[i].embedding =
                                 [of |-> items[i], as |-> ClassOf(items[i])]

C30_Witness ==
    /\ AutoDetectJob
    /\ call.job.input = ListInput(<<ItemHello, ItemPngUrl>>)
    /\ pc = "done"
    /\ Len(requests) = 2
    /\ Len(response.data) = 2
    /\ response.data[1].index = 0
    /\ response.data[1].embedding.as = "text"
    /\ response.data[2].index = 1
    /\ response.data[2].embedding.as = "image"

(***************************************************************************)
(* The service and its HTTP client.                                        *)
(***************************************************************************)
NoCallInProgress == \A p \in Procs : procs[p].pc = "idle"

ClientLive == http_client # 0 /\ clients[http_client] = "open"

\* C26: whenever no start() or stop() is in progress, is_running is true
\* exactly when http_client is a client that is not closed.
C26_RunningIffClientLive ==
    NoCallInProgress => (is_running <=> ClientLive)

\* C25: while the route is validating, the client it handed to the
\* validators is a client and is not closed.
C25_ClientLiveWhileValidating ==
    r_pc = "validate" => (r_client # 0 /\ clients[r_client] # "closed")

(***************************************************************************)
(* Image strings and the order of the validated items.                     *)
(***************************************************************************)
\* the strings among the inputs that decode to an image that loads
LoadableStrings == {ItemPngData, ItemRawPng}

NotAnImageString(x) ==
    /\ x.type = "str"
    /\ ~HasPrefix(x.val, <<"h","t","t","p",":","/","/">>)
    /\ ~HasPrefix(x.val, <<"h","t","t","p","s",":","/","/">>)
    /\ x \notin LoadableStrings

\* C23: with modality image, the validation of a string that is no URL
\* and does not decode to a loadable image ends in ValueError, and the
\* route called with such a string alone raises ValueError and returns
\* nothing.
C23_MalformedImageStringRejected ==
    r_call.modality = "image" =>
        /\ \A i \in 1..Len(r_tasks) :
              NotAnImageString(r_call.input.items[i]) =>
                  /\ r_tasks[i].status = "failed"
                  /\ r_tasks[i].exc.type = "ValueError"
        /\ (/\ r_pc = "done"
            /\ RouteStarted
            /\ r_call.input.kind = "str"
            /\ NotAnImageString(r_call.input.items[1])) =>
              /\ r_response.kind = "raised"
              /\ r_response.exc.type = "ValueError"
              /\ r_response.data = << >>
              /\ r_embed = NoEmbed

C23_Witness ==
    /\ r_call.modality = "image"
    /\ r_call.input = StrInput(ItemDataNotImage)
    /\ r_pc = "done"
    /\ RouteStarted
    /\ r_response.exc.type = "ValueError"
    /\ r_response.exc.index = 0

\* the pixels of the image that validating an item gives
ExpectedPixels(x) ==
    IF x.type = "Image" THEN Tail(x.val)
    ELSE IF x.type = "str" /\ ~NotAnImageString(x) /\ x \notin LoadableStrings
    THEN x.val
    ELSE <<"png">>

\* C28: the list handed to the engine holds at position i what validating
\* input item i gave, and entry i of the response is the embedding of it.
C28_ValidatedItemsInInputOrder ==
    r_embed # NoEmbed =>
        LET items == r_call.input.items IN
        /\ Len(r_embed.items) = Len(items)
        /\ \A i \in 1..Len(items) :
              IF r_call.modality = "text"
              THEN /\ r_embed.items[i].type = "str"
                   /\ r_embed.items[i].val =
                          IF items[i].type = "str" THEN items[i].val
                          ELSE <<"str", items[i].type>>
              ELSE /\ r_embed.items[i].type = "Image"
                   /\ Head(r_embed.items[i].val) = "RGB"
                   /\ Tail(r_embed.items[i].val) = ExpectedPixels(items[i])
        /\ r_response.kind = "ok" =>
              /\ Len(r_response.data) = Len(items)
              /\ \A i \in 1..Len(items) :
                    r_response.data[i] = [index |-> i - 1, of |-> r_embed.items[i]]

C28_Witness ==
    /\ r_response.kind = "ok"
    /\ r_call.input = ListInput(<<ItemPngUrl, ItemJpgQuery>>)
    /\ r_order = <<1, 0>>

(***************************************************************************)
(* Order inside a modality group.                                          *)
(***************************************************************************)
\* every element of s is smaller than the one after it
StrictlyIncreasing(s) == \A j \in 1..(Len(s) - 1) : s[j] < s[j + 1]

\* the items of the input found at a list of 0-based indices
ItemsAt(input_data, idxs) == [k \in 1..Len(idxs) |-> input_data[idxs[k] + 1]]

\* C31: within each modality group built by get_embeddings_mixed and by
\* group_by_modality the original indices are strictly increasing and the
\* group's payload holds the input items at those indices, so the payload is
\* a subsequence of the input in its original order.
C31_GroupIsSubsequence ==
    /\ (MixedCalled /\ pc \in {"gather", "done"}) =>
          \A k \in 1..Len(task_metadata) :
              /\ StrictlyIncreasing(task_metadata[k][2])
              /\ requests[k].payload.input.items
                     = ItemsAt(call.input_data, task_metadata[k][2])
    /\ call.path = "group" =>
          \A g \in 1..2 :
              /\ StrictlyIncreasing(Firsts(groups[g]))
              /\ Seconds(groups[g]) = ItemsAt(call.input_data, Firsts(groups[g]))

\* two different images around a text item were grouped for the backend
C31_Witness ==
    /\ MixedCalled
    /\ pc = "gather"
    /\ call.modalities = <<"image", "text", "image">>
    /\ call.input_data[1] # call.input_data[3]
    /\ Len(task_metadata) = 2
    /\ task_metadata[2][2] = <<0, 2>>
    /\ requests[2].payload.input.items = <<call.input_data[1], call.input_data[3]>>

(***************************************************************************)
(* A model that is not deployed.                                           *)
(***************************************************************************)
\* the call names a model that list_models() does not hold
UnknownModelCalled == r_call # NoRouteCall /\ r_call.model \notin DeployedModels

\* C32: a call of route_openai_get_embeddings that names a model outside
\* list_models() creates no validation task, so it downloads nothing, makes
\* no call on the engine, and once start() has let it through it ends by
\* raising the ValueError that says the model is not available.
C32_UnknownModelRejectedFirst ==
    UnknownModelCalled =>
        /\ r_tasks = << >>
        /\ r_order = << >>
        /\ r_embed = NoEmbed
        /\ r_pc \in {"start", "done"}
        /\ (r_pc = "done" /\ ~procs["r"].raised) =>
              /\ r_response.kind = "raised"
              /\ r_response.exc.type = "ValueError"
              /\ r_response.exc.text = "Model is not available"

\* a call for the image of a URL on a model that is not deployed has ended
C32_Witness ==
    /\ UnknownModelCalled
    /\ r_pc = "done"
    /\ is_running
    /\ r_call.modality = "image"
    /\ r_call.input = ListInput(<<ItemPngUrl, ItemHello>>)
    /\ r_response.exc.text = "Model is not available"

(***************************************************************************)
(* Image items that are URLs.                                              *)
(***************************************************************************)
\* the item is a string that starts with http:// or https://
IsUrlItem(item) ==
    /\ item.type = "str"
    /\ HasPrefix(item.val, HttpPrefix) \/ HasPrefix(item.val, HttpsPrefix)

\* the task failed with a ValueError of the text
FailedWith(t, text) ==
    /\ t.status = "failed"
    /\ t.exc.type = "ValueError"
    /\ t.exc.text = text

\* C33: the validation task of a URL image item that was given no HTTP
\* client has failed without calling client.get; one whose GET met a
\* transport error or a non-2xx status has failed with the download error,
\* the one raised before the body is opened; one whose body is no loadable
\* image has failed with the decode error; each failure is a ValueError.
C33_UrlImageFailures ==
    \A i \in 1..Len(r_tasks) :
        (r_call.modality = "image" /\ IsUrlItem(r_call.input.items[i])) =>
            LET t == r_tasks[i] IN
            IF r_client = 0
            THEN /\ t.gets = << >>
                 /\ FailedWith(t, "HTTP client required for downloading images from URLs")
            ELSE /\ Len(t.gets) = 1
                 /\ t.gets[1] = "pending" => t.status = "download"
                 /\ t.gets[1] \in {"transport", "status"} =>
                        FailedWith(t, "Failed to download image from URL")
                 /\ t.gets[1] = "not_image" =>
                        FailedWith(t, "Failed to decode image from URL")
                 /\ t.gets[1] \in ImageModes => t.status = "ok"

\* a call made while stop() had taken the client away: the URL item failed
\* with no request made
C33_Witness ==
    /\ r_pc = "done"
    /\ r_call.input = ListInput(<<ItemImage, ItemPngUrl>>)
    /\ r_client = 0
    /\ Len(r_tasks) = 2
    /\ r_tasks[2].gets = << >>
    /\ r_tasks[2].status = "failed"
    /\ r_response.kind = "raised"
    /\ r_response.exc.index = 1

(***************************************************************************)
(* A model the backend does not serve for the modality.                    *)
(***************************************************************************)
\* C35: when embed / image_embed raised ModelNotDeployedError the route
\* raises a ValueError, not the RuntimeError that wraps internal errors,
\* and for the image modality its message tells the caller to use a
\* multimodal model or modality='text'.
C35_NotDeployedIsValueError ==
    (r_pc = "done" /\ r_embed.outcome = "ModelNotDeployedError") =>
        /\ r_response.kind = "raised"
        /\ r_response.exc.type = "ValueError"
        /\ r_response.data = << >>
        /\ r_call.modality = "image" =>
              r_response.exc.text = "Model does not support image embeddings. Please use a multimodal model (e.g., 'jinaai/jina-clip-v1') or use modality='text' instead."
        /\ r_call.modality # "image" =>
              r_response.exc.text = "Model is not deployed or does not support embeddings."

\* image_embed was called with a downloaded image and raised
\* ModelNotDeployedError
C35_Witness ==
    /\ r_pc = "done"
    /\ r_call.modality = "image"
    /\ r_call.input = ListInput(<<ItemPngUrl>>)
    /\ r_embed.method = "image_embed"
    /\ r_embed.outcome = "ModelNotDeployedError"
    /\ r_response.exc.type = "ValueError"

(***************************************************************************)
(* Colour mode of validated images.                                        *)
(***************************************************************************)
\* the value is an image in RGB mode
IsRgbImage(v) == v.type = "Image" /\ Len(v.val) >= 1 /\ v.val[1] = "RGB"

\* C36: every value a validation task of the image modality has returned,
\* for an in-memory image, for bytes, for a downloaded URL and for a base64
\* or data-URI string alike, is an image in RGB mode, and so is every item
\* handed to image_embed.
C36_ValidatedImagesAreRgb ==
    r_call.modality = "image" =>
        /\ \A i \in 1..Len(r_tasks) :
              r_tasks[i].status = "ok" => IsRgbImage(r_tasks[i].value)
        /\ \A i \in 1..Len(r_embed.items) : IsRgbImage(r_embed.items[i])

\* RGBA bytes, an RGBA image served by a URL and an RGBA data URI were
\* validated and handed to image_embed
C36_Witness ==
    /\ r_pc = "embed"
    /\ r_call.modality = "image"
    /\ r_call.input = ListInput(<<ItemPngBytes, ItemPngUrl, ItemPngData>>)
    /\ Len(r_tasks) = 3
    /\ r_tasks[2].gets = <<"RGBA">>
    /\ r_embed.method = "image_embed"
    /\ Len(r_embed.items) = 3

\* an in-memory RGBA image was validated and handed to image_embed
C36_WitnessInMemory ==
    /\ r_pc = "embed"
    /\ r_call.input = ListInput(<<ItemImage>>)
    /\ r_embed.method = "image_embed"

(***************************************************************************)
(* Requests made for one URL item.                                         *)
(***************************************************************************)
\* the outcomes of a GET after which no image body is at hand
FailedGets == {"transport", "status"}

\* C37: a validation task calls client.get at most once; after a GET that
\* failed the task has ended with the download error and awaits no further
\* request.
C37_AtMostOneGet ==
    \A i \in 1..Len(r_tasks) :
        /\ Len(r_tasks[i].gets) <= 1
        /\ (r_tasks[i].gets # << >> /\ r_tasks[i].gets[1] \in FailedGets) =>
              /\ r_tasks[i].status = "failed"
              /\ r_tasks[i].exc.text = "Failed to download image from URL"
              /\ i - 1 \in Range(r_raised)

\* of two URL items the first met a non-2xx answer and the second was
\* downloaded; the call raised the error of the first
C37_Witness ==
    /\ r_pc = "done"
    /\ r_call.input = ListInput(<<ItemPngUrl, ItemJpgQuery>>)
    /\ Len(r_tasks) = 2
    /\ r_tasks[1].gets = <<"status">>
    /\ r_tasks[2].gets = <<"RGB">>
    /\ r_response.kind = "raised"
    /\ r_response.exc.index = 0

(***************************************************************************)
(* Calls in flight when a batch call ends.                                 *)
(***************************************************************************)
\* no download of the route and no request of get_embeddings_mixed has
\* been cancelled
NothingCancelled ==
    /\ \A i \in 1..Len(r_tasks) : r_tasks[i].status # "cancelled"
    /\ \A t \in 1..Len(requests) : requests[t].status # "cancelled"

\* the batch call has ended for its caller, with whatever outcome
RouteCallEnded == r_pc = "done" /\ r_response.kind = "raised"
MixedCallEnded == pc = "done" /\ call.path = "mixed" /\ response.kind = "raised"

\* C34 as stated: whenever a batch call has ended for its caller, its
\* abandoning the call included, no backend request and no image download
\* of the batch has been cancelled.
C34_InFlightNeverCancelled ==
    (RouteCallEnded \/ MixedCallEnded) => NothingCancelled

\* C34 as amended: when a batch call has ended because one of its calls
\* failed, no other call of the batch has been cancelled and each one still
\* in flight can complete; when the caller cancelled the batch call while it
\* awaited them, every call that was in flight has been cancelled.
C34_FailureLeavesCallsRunning ==
    /\ (RouteCallEnded /\ r_response.exc.type # "CancelledError") =>
          /\ \A i \in 1..Len(r_tasks) : r_tasks[i].status # "cancelled"
          /\ (\E i \in 1..Len(r_tasks) : r_tasks[i].status = "download") =>
                ENABLED DownloadRespond
    /\ (MixedCallEnded /\ response.etype # "CancelledError") =>
          /\ \A t \in 1..Len(requests) : requests[t].status # "cancelled"
          /\ (\E t \in 1..Len(requests) : requests[t].status = "pending") =>
                ENABLED BackendRespond
    /\ (RouteCallEnded /\ r_response.exc.type = "CancelledError") =>
          /\ \A i \in 1..Len(r_tasks) : r_tasks[i].status # "download"
          /\ \E i \in 1..Len(r_tasks) : r_tasks[i].status = "cancelled"
    /\ (MixedCallEnded /\ response.etype = "CancelledError") =>
          /\ \A t \in 1..Len(requests) : requests[t].status # "pending"
          /\ \E t \in 1..Len(requests) : requests[t].status = "cancelled"

\* the route has raised the error of its first item while the download of
\* its second item is still in flight
C34_Witness ==
    /\ RouteCallEnded
    /\ r_call.input = ListInput(<<ItemHello, ItemPngUrl>>)
    /\ Len(r_tasks) = 2
    /\ r_response.exc.index = 0
    /\ r_tasks[2].status = "download"
    /\ r_tasks[2].gets = <<"pending">>

\* get_embeddings_mixed has raised the failure of its image request and
\* its text request was answered afterwards
C34_WitnessBackend ==
    /\ MixedCallEnded
    /\ response.etype = "InfinityError"
    /\ Len(requests) = 2
    /\ requests[2].status = "failed"
    /\ requests[1].status = "ok"
    /\ order = <<2, 1>>

====
